---- MODULE Spec2Model ----
(***************************************************************************)
(* Model of crates/markdown/src/markdown.rs: the Markdown entity (source,  *)
(* parsed document cache, asynchronous parse scheduling, selection and     *)
(* pressed link) and the executor's set of live parse tasks.               *)
(*                                                                         *)
(* Strings are sequences of one-character strings, so that offsets into    *)
(* the source are sequence positions (0-based offset i is element i + 1).  *)
(***************************************************************************)
EXTENDS Integers, Sequences, FiniteSets, TLC

VARIABLES
    source,             \* Markdown.source
    selection,          \* Markdown.selection
    pressed_link,       \* Markdown.pressed_link
    autoscroll_request, \* Markdown.autoscroll_request
    parsed_markdown,    \* Markdown.parsed_markdown
    should_reparse,     \* Markdown.should_reparse
    pending_parse,      \* Markdown.pending_parse: the handle of the spawned task
    options,            \* Markdown.options
    rendered_text,      \* the RenderedText the mouse listeners of the last paint hold
    tasks,              \* the executor: parse tasks spawned, neither finished nor dropped
    version,            \* history: number of assignments made to source
    committed_version,  \* history: source version of the last committed parse result
    clipboard,          \* the host clipboard: the last text written to it
    query,              \* the last lookup made: the rendered text, the input, the result
    language_registry,  \* Markdown.language_registry: the names the registry resolves
    fallback_code_block_language, \* Markdown.fallback_code_block_language
    open_url,           \* Markdown.open_url: the handler the host supplied
    notifications,      \* Workspace.notifications: the (id, notification) pairs shown
    notifications_sent, \* NotificationTracker.notifications_sent, an application global
    timers,             \* the executor: auto-hide tasks of show_toast whose timer runs
    next_entity,        \* the application: the number of notification views built
    items,              \* ContextMenu.items
    selected_index,     \* ContextMenu.selected_index
    delayed,            \* ContextMenu.delayed
    clicked,            \* ContextMenu.clicked
    building            \* the menu is still inside the closure ContextMenu::build runs

\* The fields that are set at construction and never assigned afterwards.
configuration == <<language_registry, fallback_code_block_language, open_url>>

\* The variables of the document, which a lookup leaves alone.
document == <<source, selection, pressed_link, autoscroll_request, parsed_markdown,
              should_reparse, pending_parse, options, rendered_text, tasks, version,
              committed_version, clipboard, configuration>>

\* The state of the document: all of it but the clipboard of the host.
document_state ==
    <<source, selection, pressed_link, autoscroll_request, parsed_markdown,
      should_reparse, pending_parse, options, rendered_text, tasks, version,
      committed_version, configuration>>

\* The workspace and the application globals its notifications use.
workspace == <<notifications, notifications_sent, timers, next_entity>>

\* The context menu.
context_menu == <<items, selected_index, delayed, clicked, building>>

\* The entities next to the document, which no operation of the document touches.
other_entities == <<workspace, context_menu>>

vars == <<document, query, other_entities>>

\* Option<T>: None, or Some(v) holding one value.
None == <<>>
Some(v) == <<v>>
Unwrap(opt) == opt[1]

\* ---------------------------------------------------------------- bounds
\* Number of source assignments (append, effective reset) the host makes.
MaxVersion == 2
\* Rightmost column of a mouse position.
MaxX == 1
\* Number of texts the host appends while the mouse acts on the document.
MaxAppends == 1
\* Rightmost column and lowest row of a point looked up in a rendered document.
QueryMaxX == 5
QueryMaxY == 3
\* Greatest offset of a selection whose head is moved.
MaxOffset == 3
\* Greatest number of start tags and leaf events of a sequence laid out.
MaxEvents == 3
\* The notification views the application builds.
MaxEntities == 3
\* The items the closure of ContextMenu::build pushes.
MaxItems == 3
\* Greatest column of a point of a drag over a document that is rendered again.
DragMaxX == 3

\* ---------------------------------------------------------------- inputs
\* A paragraph with a link and a word: [l](u) b
LinkSource == <<"[", "l", "]", "(", "u", ")", " ", "b">>
\* Texts the host constructs a document with.
InitSources == { <<>>, LinkSource }
\* Texts the host appends.
AppendTexts == { <<>>, <<" ", "c">> }
\* Texts the host resets the document to.
ResetSources == { <<>>, LinkSource, <<"c">> }
\* Points the mouse events carry: column -1 is left of the element, row 0 is
\* the first rendered line and row 1 the margin below it.
MousePositions == [x : -1 .. MaxX, y : 0 .. 1]
\* MouseDownEvent::click_count
ClickCounts == 1 .. 3

\* Documents whose rendered text is looked up.
\* A plain paragraph on one line: a b
PlainSource == <<"a", " ", "b">>
\* A plain paragraph on two lines, joined by a soft break
TwoLineSource == <<"a", "\n", "b">>
\* Two plain paragraphs, with a blank line between them
TwoParagraphSource == <<"a", "\n", "\n", "b", " ", "c">>
\* Strong emphasis before a link: **b** [l](u) t
BoldLinkSource ==
    <<"*", "*", "b", "*", "*", " ", "[", "l", "]", "(", "u", ")", " ", "t">>
\* A paragraph that ends with a link: b [l](u)
LinkEndSource == <<"b", " ", "[", "l", "]", "(", "u", ")">>
QuerySources ==
    { <<>>, PlainSource, TwoLineSource, TwoParagraphSource, LinkSource,
      BoldLinkSource, LinkEndSource }
\* Documents the mouse and the Copy action act on.
InteractionSources == { TwoLineSource, LinkEndSource }
\* Points looked up: row 2 is the second rendered line, row 3 is below it.
QueryPositions == [x : -1 .. QueryMaxX, y : 0 .. QueryMaxY]

\* ---------------------------------------------------------------- strings
\* s[a..b) for 0-based offsets a <= b, as Rust's &s[a..b]
Slice(s, a, b) == SubSeq(s, a + 1, b)

\* The least offset i in from..Len(s)-1 with s[i] = ch, or Len(s) when none.
FindFrom(s, ch, from) ==
    LET hits == { i \in from .. Len(s) - 1 : s[i + 1] = ch }
    IN  IF hits = {} THEN Len(s) ELSE CHOOSE i \in hits : \A j \in hits : i <= j

\* Whether pat occurs in s at offset i.
OccursAt(s, pat, i) == i + Len(pat) <= Len(s) /\ Slice(s, i, i + Len(pat)) = pat

\* The fence of a code block: three backticks, each written "~" here.
Backticks == <<"~", "~", "~">>

\* ---------------------------------------------------------------- values
\* Selection::default()
DefaultSelection == [start |-> 0, end |-> 0, reversed |-> FALSE, pending |-> FALSE]

\* ParsedMarkdown::default()
DefaultParsedMarkdown == [source |-> <<>>, events |-> <<>>, languages |-> <<>>]

\* ---------------------------------------------------------------- parser
\* The events of crates/markdown/src/parser.rs, for the constructs used here:
\* paragraphs separated by blank lines, holding plain text, soft breaks,
\* strong emphasis and inline links, and fenced code blocks.
TextEvent(a, b, txt) == [range |-> <<a, b>>, kind |-> "Text", text |-> txt]
SoftBreakEvent(a) == [range |-> <<a, a + 1>>, kind |-> "SoftBreak"]
StartEvent(a, b, t) == [range |-> <<a, b>>, kind |-> "Start", tag |-> t]
EndEvent(a, b, t) == [range |-> <<a, b>>, kind |-> "End", tag |-> t]
ParagraphTag == [name |-> "Paragraph"]
StrongTag == [name |-> "Strong"]
LinkTag(url) == [name |-> "Link", dest_url |-> url]
\* MarkdownTag::CodeBlock(CodeBlockKind::Fenced(language))
CodeBlockTag(language) == [name |-> "CodeBlock", language |-> language]

\* The other tags of MarkdownTag; Image and FootnoteDefinition are among those
\* that the element does not support.
HeadingTag == [name |-> "Heading"]
BlockQuoteTag == [name |-> "BlockQuote"]
HtmlBlockTag == [name |-> "HtmlBlock"]
ListTag(bullet_index) == [name |-> "List", bullet_index |-> bullet_index]
ItemTag == [name |-> "Item"]
EmphasisTag == [name |-> "Emphasis"]
StrikethroughTag == [name |-> "Strikethrough"]
MetadataBlockTag == [name |-> "MetadataBlock"]
TableTag == [name |-> "Table"]
TableHeadTag == [name |-> "TableHead"]
TableRowTag == [name |-> "TableRow"]
TableCellTag == [name |-> "TableCell"]
ImageTag == [name |-> "Image"]
FootnoteDefinitionTag == [name |-> "FootnoteDefinition"]
CodeEvent(a, b, txt) == [range |-> <<a, b>>, kind |-> "Code", text |-> txt]
HtmlEvent(a, b, txt) == [range |-> <<a, b>>, kind |-> "Html", text |-> txt]
InlineHtmlEvent(a, b, txt) == [range |-> <<a, b>>, kind |-> "InlineHtml", text |-> txt]
RuleEvent(a, b) == [range |-> <<a, b>>, kind |-> "Rule"]
HardBreakEvent(a) == [range |-> <<a, a + 1>>, kind |-> "HardBreak"]

\* The nesting of the events: the tags that start directly inside a tag (the
\* document is the tag named "Document"), and the kinds of the other events
\* directly inside it. The parser finds links in the text of code blocks too.
BlockTags ==
    { ParagraphTag, HeadingTag, BlockQuoteTag, CodeBlockTag(<<>>), HtmlBlockTag,
      ListTag(None), ListTag(Some(1)), MetadataBlockTag, TableTag,
      FootnoteDefinitionTag }
InlineTags == { EmphasisTag, StrongTag, StrikethroughTag, LinkTag(<<"u">>), ImageTag }
TagsInside(name) ==
    CASE name \in {"Document", "BlockQuote", "Item", "FootnoteDefinition"} -> BlockTags
      [] name = "List" -> { ItemTag }
      [] name = "Table" -> { TableHeadTag, TableRowTag }
      [] name \in {"TableHead", "TableRow"} -> { TableCellTag }
      [] name \in {"Paragraph", "Heading", "TableCell", "Emphasis", "Strong",
                   "Strikethrough", "Link", "Image"} -> InlineTags
      [] name = "CodeBlock" -> { LinkTag(<<"u">>) }
      [] OTHER -> {}
LeavesInside(name) ==
    CASE name \in {"Document", "BlockQuote", "FootnoteDefinition"} -> { "Rule" }
      [] name = "Item" -> { "Rule", "Text" }
      [] name \in {"Paragraph", "Heading", "TableCell", "Emphasis", "Strong",
                   "Strikethrough", "Link", "Image"} ->
            { "Text", "Code", "InlineHtml", "SoftBreak", "HardBreak" }
      [] name \in {"CodeBlock", "MetadataBlock"} -> { "Text" }
      [] name = "HtmlBlock" -> { "Html" }
      [] OTHER -> {}

\* The leaf event of a kind at an offset of the source; the text of a code
\* block ends with a line break.
LeafEvent(kind, inside, a) ==
    CASE kind = "Text" /\ inside = "CodeBlock" -> TextEvent(a, a + 2, <<"x", "\n">>)
      [] kind = "Text" /\ inside # "CodeBlock" -> TextEvent(a, a + 1, <<"x">>)
      [] kind = "Code" -> CodeEvent(a, a + 1, <<"x">>)
      [] kind = "Html" -> HtmlEvent(a, a + 1, <<"x">>)
      [] kind = "InlineHtml" -> InlineHtmlEvent(a, a + 1, <<"x">>)
      [] kind = "Rule" -> RuleEvent(a, a + 1)
      [] kind = "SoftBreak" -> SoftBreakEvent(a)
      [] kind = "HardBreak" -> HardBreakEvent(a)

\* Whether an inline link "[text](url)" starts at offset i of src.
IsLinkAt(src, i) ==
    /\ i < Len(src)
    /\ src[i + 1] = "["
    /\ LET j == FindFrom(src, "]", i + 1)
           k == FindFrom(src, ")", j + 2)
       IN  /\ i + 1 < j
           /\ j + 1 < Len(src)
           /\ src[j + 2] = "("
           /\ k < Len(src)
           /\ \A n \in i + 1 .. k : src[n + 1] \notin {"[", "\n"}

\* The offset of the closing "**" of strong emphasis opened at offset i, or
\* Len(src) when there is none.
StrongEnd(src, i) ==
    LET k == FindFrom(src, "*", i + 2)
    IN  IF k + 1 < Len(src) /\ src[k + 2] = "*" THEN k ELSE Len(src)

\* Whether strong emphasis "**text**" starts at offset i of src.
IsStrongAt(src, i) ==
    /\ i + 1 < Len(src)
    /\ src[i + 1] = "*"
    /\ src[i + 2] = "*"
    /\ LET k == StrongEnd(src, i)
       IN  /\ i + 2 < k
           /\ k < Len(src)
           /\ \A n \in i + 2 .. k - 1 : src[n + 1] \notin {"[", "\n", " "}

\* The end of the text run that starts at offset i: the next line break,
\* link or strong emphasis, or the end of the source.
TextEnd(src, i) ==
    LET stops == { e \in i + 1 .. Len(src) :
                     \/ e = Len(src)
                     \/ src[e + 1] = "\n"
                     \/ IsLinkAt(src, e)
                     \/ IsStrongAt(src, e) }
    IN  CHOOSE e \in stops : \A f \in stops : e <= f

\* Whether the paragraph ends at offset i: at the end of the source, or at a
\* line break that a blank line, a fence or the end of the source follows.
IsParagraphEnd(src, i) ==
    \/ i >= Len(src)
    \/ /\ src[i + 1] = "\n"
       /\ \/ i + 1 >= Len(src)
          \/ src[i + 2] = "\n"
          \/ OccursAt(src, Backticks, i + 1)

\* The events of the inline content of the paragraph from offset i on.
RECURSIVE InlineEvents(_, _)
InlineEvents(src, i) ==
    IF IsParagraphEnd(src, i) THEN <<>>
    ELSE IF src[i + 1] = "\n" THEN <<SoftBreakEvent(i)>> \o InlineEvents(src, i + 1)
    ELSE IF IsLinkAt(src, i)
    THEN LET j == FindFrom(src, "]", i + 1)
             k == FindFrom(src, ")", j + 2)
             tag == LinkTag(Slice(src, j + 2, k))
         IN  <<StartEvent(i, k + 1, tag),
               TextEvent(i + 1, j, Slice(src, i + 1, j)),
               EndEvent(i, k + 1, tag)>> \o InlineEvents(src, k + 1)
    ELSE IF IsStrongAt(src, i)
    THEN LET k == StrongEnd(src, i)
         IN  <<StartEvent(i, k + 2, StrongTag),
               TextEvent(i + 2, k, Slice(src, i + 2, k)),
               EndEvent(i, k + 2, StrongTag)>> \o InlineEvents(src, k + 2)
    ELSE LET e == TextEnd(src, i)
         IN  <<TextEvent(i, e, Slice(src, i, e))>> \o InlineEvents(src, e)

\* The offset at which the paragraph that starts at offset i ends.
ParagraphEnd(src, i) ==
    LET ends == { e \in i .. Len(src) : IsParagraphEnd(src, e) }
    IN  CHOOSE e \in ends : \A f \in ends : e <= f

\* Whether a fence starts at offset i, at the start of a line.
IsFenceAt(src, i) ==
    /\ i = 0 \/ src[i] = "\n"
    /\ OccursAt(src, Backticks, i)

\* The offset of the fence that closes the code block whose body starts at
\* offset i, or Len(src) when the block is never closed.
ClosingFence(src, i) ==
    LET fences == { c \in i .. Len(src) : IsFenceAt(src, c) }
    IN  IF fences = {} THEN Len(src) ELSE CHOOSE c \in fences : \A d \in fences : c <= d

\* The events of the body of a code block, from offset a to offset b: one
\* text for every line, with its line break.
RECURSIVE CodeLines(_, _, _)
CodeLines(src, a, b) ==
    IF a >= b THEN <<>>
    ELSE LET line_break == FindFrom(src, "\n", a)
             e == IF line_break < b THEN line_break + 1 ELSE b
         IN  <<TextEvent(a, e, Slice(src, a, e))>> \o CodeLines(src, e, b)

\* The events of the blocks from offset i on: fenced code blocks and
\* paragraphs; blank lines and the white space a paragraph starts with yield
\* no event.
RECURSIVE BlockEvents(_, _)
BlockEvents(src, i) ==
    IF i >= Len(src) THEN <<>>
    ELSE IF src[i + 1] \in {"\n", " "} THEN BlockEvents(src, i + 1)
    ELSE IF IsFenceAt(src, i)
    THEN LET info_end == FindFrom(src, "\n", i + 3)
             body_start == IF info_end < Len(src) THEN info_end + 1 ELSE info_end
             closing == ClosingFence(src, body_start)
             line_break == FindFrom(src, "\n", closing)
             block_end == IF line_break < Len(src) THEN line_break + 1 ELSE line_break
             tag == CodeBlockTag(Slice(src, i + 3, info_end))
         IN  <<StartEvent(i, block_end, tag)>> \o CodeLines(src, body_start, closing)
                 \o <<EndEvent(i, block_end, tag)>> \o BlockEvents(src, block_end)
    ELSE LET e == ParagraphEnd(src, i)
             range_end == IF e < Len(src) THEN e + 1 ELSE e
         IN  <<StartEvent(i, range_end, ParagraphTag)>> \o InlineEvents(src, i)
                 \o <<EndEvent(i, range_end, ParagraphTag)>> \o BlockEvents(src, e)

\* parser::parse_markdown: the events of the source.
parse_markdown(src) == BlockEvents(src, 0)

\* parser::parse_markdown: the set of the language names of the fenced code
\* blocks of the source; a fence that names no language gives the empty name.
language_names(src) ==
    LET events == parse_markdown(src)
    IN  { events[n].tag.language :
            n \in { m \in 1 .. Len(events) : /\ events[m].kind = "Start"
                                             /\ events[m].tag.name = "CodeBlock" } }

\* parser::parse_links_only: the text as it is, with bare URLs as links (the
\* texts used here hold no URL).
parse_links_only(src) == <<TextEvent(0, Len(src), src)>>

\* LanguageRegistry::language_for_name: the language of that name, named
\* as it is looked up, when the registry holds one.
language_for_name(registry, name) ==
    IF name \in registry THEN [ok |-> TRUE, language |-> name]
    ELSE [ok |-> FALSE, language |-> <<>>]

\* The name the background task looks up for a fence name: the name itself,
\* the fallback for the empty name, or None when there is nothing to look up.
LookedUp(name, fallback) == IF name # <<>> THEN Some(name) ELSE fallback

\* Resolution that files a language under its own name, not under the name
\* of the fence.
resolve_languages_by_language_name(names, registry, fallback) ==
    LET resolved == { name \in names :
                        /\ registry # None
                        /\ LookedUp(name, fallback) # None
                        /\ language_for_name(Unwrap(registry),
                                             Unwrap(LookedUp(name, fallback))).ok }
        found == { Unwrap(LookedUp(name, fallback)) : name \in resolved }
    IN  [name \in found |-> name]

\* The loop of the background task of Markdown::parse over the language
\* names: the map from each name that resolves to its language.
resolve_languages(names, registry, fallback) ==
    LET resolved == { name \in names :
                        /\ registry # None
                        /\ LookedUp(name, fallback) # None
                        /\ language_for_name(Unwrap(registry),
                                             Unwrap(LookedUp(name, fallback))).ok }
    IN  [name \in resolved |->
            language_for_name(Unwrap(registry),
                              Unwrap(LookedUp(name, fallback))).language]

\* The ParsedMarkdown the background task of a parse produces from its
\* captured source, registry and fallback (fields that are never reassigned).
ParseResult(task) ==
    IF task.parse_text_only
    THEN [source |-> task.source,
          events |-> parse_links_only(task.source),
          languages |-> <<>>]
    ELSE [source |-> task.source,
          events |-> parse_markdown(task.source),
          languages |-> resolve_languages(language_names(task.source), language_registry,
                                          fallback_code_block_language)]

\* ---------------------------------------------------------------- builder
\* MarkdownElementBuilder::new. Of a div only the kind is kept.
NewBuilder ==
    [div_stack |-> <<"inner">>,
     rendered_lines |-> <<>>,
     pending_line |-> [text |-> <<>>, source_mappings |-> <<>>],
     rendered_links |-> <<>>,
     current_source_index |-> 0,
     text_style_stack |-> <<>>,
     code_block_stack |-> <<>>,
     list_stack |-> <<>>]

\* Vec::pop
PopVec(v) == IF v = <<>> THEN v ELSE SubSeq(v, 1, Len(v) - 1)

\* MarkdownElementBuilder::flush_text
flush_text(b) ==
    LET line == b.pending_line
        taken == [b EXCEPT !.pending_line = [text |-> <<>>, source_mappings |-> <<>>]]
    IN  IF line.text = <<>>
        THEN taken
        ELSE [taken EXCEPT !.rendered_lines =
                 Append(@, [text |-> line.text,
                            source_mappings |-> line.source_mappings,
                            source_end |-> b.current_source_index])]

\* MarkdownElementBuilder::push_div
push_div(b, div) == [flush_text(b) EXCEPT !.div_stack = Append(@, div)]

\* MarkdownElementBuilder::pop_div
pop_div(b) == [flush_text(b) EXCEPT !.div_stack = PopVec(@)]

\* MarkdownElementBuilder::push_text_style
push_text_style(b, style) == [b EXCEPT !.text_style_stack = Append(@, style)]

\* MarkdownElementBuilder::pop_text_style
pop_text_style(b) == [b EXCEPT !.text_style_stack = PopVec(@)]

\* MarkdownElementBuilder::push_code_block
push_code_block(b, language) == [b EXCEPT !.code_block_stack = Append(@, language)]

\* A pop_code_block that leaves the language on the stack.
pop_code_block_keeping_language(b) == b

\* MarkdownElementBuilder::push_list
push_list(b, bullet_index) ==
    [b EXCEPT !.list_stack = Append(@, [bullet_index |-> bullet_index])]

\* MarkdownElementBuilder::next_bullet_index: the builder after the call, in
\* which the index of an ordered list has advanced.
next_bullet_index(b) ==
    IF b.list_stack # <<>> /\ b.list_stack[Len(b.list_stack)].bullet_index # None
    THEN [b EXCEPT !.list_stack[Len(b.list_stack)].bullet_index = Some(Unwrap(@) + 1)]
    ELSE b

\* MarkdownElementBuilder::pop_list
pop_list(b) == [b EXCEPT !.list_stack = PopVec(@)]

\* MarkdownElementBuilder::pop_code_block
pop_code_block(b) == [b EXCEPT !.code_block_stack = PopVec(@)]

\* MarkdownElementBuilder::modify_current_div: the div gets a child.
modify_current_div(b) == flush_text(b)

\* MarkdownElementBuilder::trim_trailing_newline
trim_trailing_newline(b) ==
    LET text == b.pending_line.text
    IN  IF text # <<>> /\ text[Len(text)] = "\n"
        THEN [b EXCEPT !.pending_line.text = PopVec(@),
                       !.current_source_index = @ - 1]
        ELSE b

\* MarkdownElementBuilder::push_link
push_link(b, destination_url, source_range) ==
    [b EXCEPT !.rendered_links =
        Append(@, [source_range |-> source_range, destination_url |-> destination_url])]

\* MarkdownElementBuilder::push_text
push_text(b, text, source_index) ==
    [b EXCEPT !.pending_line =
                 [text |-> @.text \o text,
                  source_mappings |->
                      Append(@.source_mappings,
                             [rendered_index |-> Len(@.text),
                              source_index |-> source_index])],
              !.current_source_index = source_index + Len(text)]

\* MarkdownElementBuilder::build: the RenderedText of the RenderedMarkdown.
build(b) ==
    LET flushed == flush_text(b)
    IN  [lines |-> flushed.rendered_lines, links |-> flushed.rendered_links]

\* One iteration of the event loop of MarkdownElement::request_layout. A Code,
\* Html or InlineHtml event holds the text of its range of the source; a
\* start or end tag that no arm names is logged and changes nothing. The
\* style gives code blocks no text style of their own, and the documents keep
\* the copy_code_block_buttons option that new and new_text set (the host
\* never turns it off).
LayoutEvent(b, ev, languages) ==
    CASE ev.kind = "Start" /\ ev.tag.name = "Paragraph" -> push_div(b, "paragraph")
      [] ev.kind = "Start" /\ ev.tag.name = "CodeBlock" ->
            LET language == IF ev.tag.language \in DOMAIN languages
                            THEN Some(languages[ev.tag.language])
                            ELSE None
            IN  push_div(push_code_block(push_div(b, "relative"), language), "code-block")
      [] ev.kind = "End" /\ ev.tag.name = "CodeBlock" ->
            pop_div(modify_current_div(flush_text(
                pop_code_block(pop_div(trim_trailing_newline(b))))))
      [] ev.kind = "Start" /\ ev.tag.name = "Link" ->
            IF b.code_block_stack = <<>>
            THEN push_text_style(push_link(b, ev.tag.dest_url, ev.range), "link")
            ELSE b
      [] ev.kind = "Start" /\ ev.tag.name = "Strong" -> push_text_style(b, "strong")
      [] ev.kind = "Start" /\ ev.tag.name = "Heading" ->
            push_div(push_text_style(b, "heading"), "heading")
      [] ev.kind = "Start" /\ ev.tag.name = "BlockQuote" ->
            push_div(push_text_style(b, "block_quote"), "block-quote")
      [] ev.kind = "Start" /\ ev.tag.name = "HtmlBlock" -> push_div(b, "html-block")
      [] ev.kind = "Start" /\ ev.tag.name = "List" ->
            push_div(push_list(b, ev.tag.bullet_index), "list")
      [] ev.kind = "Start" /\ ev.tag.name = "Item" ->
            push_div(push_div(next_bullet_index(b), "item"), "item-text")
      [] ev.kind = "Start" /\ ev.tag.name = "Emphasis" -> push_text_style(b, "emphasis")
      [] ev.kind = "Start" /\ ev.tag.name = "Strikethrough" ->
            push_text_style(b, "strikethrough")
      [] ev.kind = "Start" /\ ev.tag.name = "MetadataBlock" -> b
      [] ev.kind = "Start" /\ ev.tag.name = "Table" ->
            push_div(push_div(b, "table"), "table-rows")
      [] ev.kind = "Start" /\ ev.tag.name = "TableHead" ->
            push_text_style(push_div(b, "table-head"), "bold")
      [] ev.kind = "Start" /\ ev.tag.name = "TableRow" -> push_div(b, "table-row")
      [] ev.kind = "Start" /\ ev.tag.name = "TableCell" -> push_div(b, "table-cell")
      [] ev.kind = "End" /\ ev.tag.name = "Paragraph" -> pop_div(b)
      [] ev.kind = "End" /\ ev.tag.name = "Strong" -> pop_text_style(b)
      [] ev.kind = "End" /\ ev.tag.name = "Heading" -> pop_text_style(pop_div(b))
      [] ev.kind = "End" /\ ev.tag.name = "BlockQuote" -> pop_div(pop_text_style(b))
      [] ev.kind = "End" /\ ev.tag.name = "HtmlBlock" -> pop_div(b)
      [] ev.kind = "End" /\ ev.tag.name = "List" -> pop_div(pop_list(b))
      [] ev.kind = "End" /\ ev.tag.name = "Item" -> pop_div(pop_div(b))
      [] ev.kind = "End" /\ ev.tag.name = "Emphasis" -> pop_text_style(b)
      [] ev.kind = "End" /\ ev.tag.name = "Strikethrough" -> pop_text_style(b)
      [] ev.kind = "End" /\ ev.tag.name = "Table" -> pop_div(pop_div(b))
      [] ev.kind = "End" /\ ev.tag.name = "TableHead" -> pop_text_style(pop_div(b))
      [] ev.kind = "End" /\ ev.tag.name = "TableRow" -> pop_div(b)
      [] ev.kind = "End" /\ ev.tag.name = "TableCell" -> pop_div(b)
      [] ev.kind = "Code" ->
            pop_text_style(push_text(push_text_style(b, "inline_code"),
                                     ev.text, ev.range[1]))
      [] ev.kind = "Html" -> push_text(b, ev.text, ev.range[1])
      [] ev.kind = "InlineHtml" -> push_text(b, ev.text, ev.range[1])
      [] ev.kind = "Rule" -> pop_div(push_div(b, "rule"))
      [] ev.kind = "End" /\ ev.tag.name = "Link" ->
            IF b.code_block_stack = <<>> THEN pop_text_style(b) ELSE b
      [] ev.kind = "Text" -> push_text(b, ev.text, ev.range[1])
      [] ev.kind = "SoftBreak" -> push_text(b, <<" ">>, ev.range[1])
      [] ev.kind = "HardBreak" -> push_text(b, <<"\n">>, ev.range[1])
      [] OTHER -> b

RECURSIVE LayoutEvents(_, _, _)
LayoutEvents(b, parsed, i) ==
    IF i > Len(parsed.events) THEN b
    ELSE LayoutEvents(LayoutEvent(b, parsed.events[i], parsed.languages), parsed, i + 1)

\* MarkdownElement::request_layout: the RenderedText built from the cache.
request_layout(parsed) == build(LayoutEvents(NewBuilder, parsed, 1))

\* ---------------------------------------------------------------- layout
\* The text layout of the GUI toolkit: glyphs are one unit wide, a rendered
\* line is laid out unwrapped, and rendered line i (from 0) covers row 2i,
\* with one free row of margin below it.
LineTop(i) == 2 * i
LineBottom(i) == 2 * i

Ok(ix) == [ok |-> TRUE, ix |-> ix]
Err(ix) == [ok |-> FALSE, ix |-> ix]

\* TextLayout::index_for_position of rendered line i with the given text
index_for_position(text, i, position) ==
    IF position.y < LineTop(i) THEN Err(0)
    ELSE IF position.y > LineBottom(i) THEN Err(Len(text))
    ELSE IF position.x < 0 THEN Err(0)
    ELSE IF position.x >= Len(text) THEN Err(Len(text))
    ELSE Ok(position.x)

\* ---------------------------------------------------------------- rendered text
\* The result of a lookup that panics (index out of bounds, overflow of a
\* usize): no usize value.
Panic == -1

\* slice::binary_search_by_key over mappings sorted by the key: the index
\* (from 0) of a mapping with that key, or the insertion point when none.
binary_search_by_key(keys, key) ==
    LET hits == { n \in 1 .. Len(keys) : keys[n] = key }
    IN  IF hits # {}
        THEN Ok((CHOOSE n \in hits : TRUE) - 1)
        ELSE Err(Cardinality({ n \in 1 .. Len(keys) : keys[n] < key }))

\* A pick of the first mapping of the line, whatever was found.
MappingAt_first(mappings, found) ==
    IF mappings = <<>> THEN [rendered_index |-> Panic, source_index |-> Panic]
    ELSE mappings[1]

\* The mapping the two lookups of RenderedLine pick: the one found, or the
\* one before the insertion point.
MappingAt(mappings, found) ==
    IF found.ok THEN mappings[found.ix + 1]
    ELSE IF found.ix = 0 THEN [rendered_index |-> Panic, source_index |-> Panic]
    ELSE mappings[found.ix]

\* A lookup that takes rendered indices to be source indices.
rendered_index_for_source_index_unmapped(line, source_index) == source_index

\* RenderedLine::rendered_index_for_source_index
rendered_index_for_source_index(line, source_index) ==
    LET keys == [n \in 1 .. Len(line.source_mappings) |->
                    line.source_mappings[n].source_index]
        mapping == MappingAt(line.source_mappings, binary_search_by_key(keys, source_index))
    IN  IF mapping.rendered_index = Panic THEN Panic
        ELSE mapping.rendered_index + (source_index - mapping.source_index)

\* RenderedLine::source_index_for_rendered_index
source_index_for_rendered_index(line, rendered_index) ==
    LET keys == [n \in 1 .. Len(line.source_mappings) |->
                    line.source_mappings[n].rendered_index]
        mapping == MappingAt(line.source_mappings, binary_search_by_key(keys, rendered_index))
    IN  IF mapping.rendered_index = Panic THEN Panic
        ELSE mapping.source_index + (rendered_index - mapping.rendered_index)

\* A lookup that takes the rendered index of the point to be its source offset.
line_source_index_for_position_unmapped(line, i, position) ==
    index_for_position(line.text, i, position)

\* RenderedLine::source_index_for_position, for rendered line i (from 0)
line_source_index_for_position(line, i, position) ==
    LET found == index_for_position(line.text, i, position)
        source_index == source_index_for_rendered_index(line, found.ix)
    IN  IF found.ok THEN Ok(source_index) ELSE Err(source_index)

\* RenderedText::source_index_for_position
RECURSIVE SourceIndexFrom(_, _, _)
SourceIndexFrom(text, n, position) ==
    IF n > Len(text.lines)
    THEN Err(IF text.lines = <<>> THEN 0 ELSE text.lines[Len(text.lines)].source_end)
    ELSE IF position.y > LineBottom(n - 1)
    THEN IF n < Len(text.lines) /\ position.y < LineTop(n)
         THEN Err(text.lines[n].source_end)
         ELSE SourceIndexFrom(text, n + 1, position)
    ELSE line_source_index_for_position(text.lines[n], n - 1, position)

\* A lookup that reports the offset of every point as that of a character.
source_index_for_position_always_ok(text, position) ==
    Ok(SourceIndexFrom(text, 1, position).ix)

source_index_for_position(text, position) == SourceIndexFrom(text, 1, position)

\* Range::contains
Contains(range, ix) == range[1] <= ix /\ ix < range[2]

\* A link_for_position that takes the offset of a point outside the glyphs too.
link_for_position_ignoring_bounds(text, position) ==
    LET found == source_index_for_position(text, position)
        hits == { n \in 1 .. Len(text.links) : Contains(text.links[n].source_range, found.ix) }
    IN  IF hits = {} THEN None
        ELSE Some(text.links[CHOOSE n \in hits : \A m \in hits : n <= m])

\* RenderedText::link_for_position
link_for_position(text, position) ==
    LET found == source_index_for_position(text, position)
        hits == { n \in 1 .. Len(text.links) : Contains(text.links[n].source_range, found.ix) }
    IN  IF ~found.ok \/ hits = {} THEN None
        ELSE Some(text.links[CHOOSE n \in hits : \A m \in hits : n <= m])

\* str::rfind(' ') in text[0..upto): the offset of the last space, or -1
RFindSpace(text, upto) ==
    LET hits == { i \in 0 .. upto - 1 : text[i + 1] = " " }
    IN  IF hits = {} THEN -1 ELSE CHOOSE i \in hits : \A j \in hits : j <= i

\* The first line whose source_end is not before source_index (from 1), or 0.
LineFor(text, source_index) ==
    LET hits == { n \in 1 .. Len(text.lines) : source_index <= text.lines[n].source_end }
    IN  IF hits = {} THEN 0 ELSE CHOOSE n \in hits : \A m \in hits : n <= m

\* A word range that runs from the first line to the last.
surrounding_word_range_across_lines(text, source_index) ==
    IF text.lines = <<>> THEN <<source_index, source_index>>
    ELSE <<text.lines[1].source_mappings[1].source_index,
           text.lines[Len(text.lines)].source_end>>

\* RenderedText::surrounding_word_range; slicing the text of the line at an
\* index past its end panics.
surrounding_word_range(text, source_index) ==
    LET n == LineFor(text, source_index) IN
    IF n = 0 THEN <<source_index, source_index>>
    ELSE
    LET line == text.lines[n]
        line_rendered_start == line.source_mappings[1].rendered_index
        rendered == rendered_index_for_source_index(line, source_index)
    IN  IF \/ rendered = Panic
           \/ rendered < line_rendered_start
           \/ rendered - line_rendered_start > Len(line.text)
        THEN <<Panic, Panic>>
        ELSE
        LET rendered_index_in_line == rendered - line_rendered_start
            space_before == RFindSpace(line.text, rendered_index_in_line)
            previous_space == IF space_before >= 0 THEN space_before + 1 ELSE 0
            next_space == FindFrom(line.text, " ", rendered_index_in_line)
        IN  <<source_index_for_rendered_index(line, line_rendered_start + previous_space),
              source_index_for_rendered_index(line, line_rendered_start + next_space)>>

\* RenderedText::surrounding_line_range
surrounding_line_range(text, source_index) ==
    LET n == LineFor(text, source_index) IN
    IF n = 0 THEN <<source_index, source_index>>
    ELSE <<text.lines[n].source_mappings[1].source_index, text.lines[n].source_end>>

\* TextLayout::position_for_index of rendered line i with the given text: the
\* point of the glyph at that index, or None past the end of the text.
position_for_index(text, i, index) ==
    IF index > Len(text) THEN None ELSE Some([x |-> index, y |-> LineTop(i)])

\* RenderedText::position_for_source_index, from line n (from 1) on
RECURSIVE PositionFrom(_, _, _)
PositionFrom(text, n, source_index) ==
    IF n > Len(text.lines) THEN None
    ELSE LET line == text.lines[n]
             line_source_start == line.source_mappings[1].source_index
         IN  IF source_index < line_source_start THEN None
             ELSE IF source_index > line.source_end
             THEN PositionFrom(text, n + 1, source_index)
             ELSE position_for_index(line.text, n - 1,
                      rendered_index_for_source_index(line, source_index))

position_for_source_index(text, source_index) == PositionFrom(text, 1, source_index)

\* usize::min
Min(a, b) == IF a <= b THEN a ELSE b

\* The result of a call that returns a string, or panics.
Returned(value) == [panic |-> FALSE, value |-> value]
Panicked == [panic |-> TRUE, value |-> <<>>]

\* <[String]>::join
RECURSIVE Join(_, _)
Join(parts, sep) ==
    IF parts = <<>> THEN <<>>
    ELSE IF Len(parts) = 1 THEN parts[1]
    ELSE parts[1] \o sep \o Join(Tail(parts), sep)

\* The loop of RenderedText::text_for_range from line n (from 1) on: the
\* strings pushed to ret; slicing text[start..end] panics when start > end.
RECURSIVE TextParts(_, _, _, _)
TextParts(text, n, range_start, range_end) ==
    IF n > Len(text.lines) THEN Returned(<<>>)
    ELSE LET line == text.lines[n]
             line_source_start == line.source_mappings[1].source_index
             start == IF range_start < line_source_start THEN 0
                      ELSE rendered_index_for_source_index(line, range_start)
             end == Min(IF range_end > line.source_end
                        THEN rendered_index_for_source_index(line, line.source_end)
                        ELSE rendered_index_for_source_index(line, range_end),
                        Len(line.text))
             rest == TextParts(text, n + 1, range_start, range_end)
         IN  IF range_start > line.source_end THEN rest
             ELSE IF range_end < line_source_start THEN Returned(<<>>)
             ELSE IF start > end \/ rest.panic THEN Panicked
             ELSE Returned(<<Slice(line.text, start, end)>> \o rest.value)

\* A text_for_range that gives every line the range meets in full.
text_for_range_whole_lines(text, range_start, range_end) ==
    LET met == SelectSeq(text.lines,
                   LAMBDA line : /\ range_start <= line.source_end
                                 /\ line.source_mappings[1].source_index <= range_end)
    IN  Returned(Join([n \in 1 .. Len(met) |-> met[n].text], <<"\n">>))

\* RenderedText::text_for_range
text_for_range(text, range_start, range_end) ==
    LET parts == TextParts(text, 1, range_start, range_end)
    IN  IF parts.panic THEN Panicked ELSE Returned(Join(parts.value, <<"\n">>))

\* The calls of RenderedLine::rendered_index_for_source_index that the lookups
\* of RenderedText make, each the line and the offset passed to it.
Call(line, source_index) == [line |-> line, source_index |-> source_index]

\* Those of RenderedText::position_for_source_index, from line n (from 1) on.
RECURSIVE PositionCallsFrom(_, _, _)
PositionCallsFrom(text, n, source_index) ==
    IF n > Len(text.lines) THEN {}
    ELSE LET line == text.lines[n]
             line_source_start == line.source_mappings[1].source_index
         IN  IF source_index < line_source_start THEN {}
             ELSE IF source_index > line.source_end
             THEN PositionCallsFrom(text, n + 1, source_index)
             ELSE { Call(line, source_index) }

position_for_source_index_calls(text, source_index) ==
    PositionCallsFrom(text, 1, source_index)

\* That of RenderedText::surrounding_word_range.
surrounding_word_range_calls(text, source_index) ==
    LET n == LineFor(text, source_index)
    IN  IF n = 0 THEN {} ELSE { Call(text.lines[n], source_index) }

\* Those of RenderedText::text_for_range, from line n (from 1) on.
RECURSIVE TextCallsFrom(_, _, _, _)
TextCallsFrom(text, n, range_start, range_end) ==
    IF n > Len(text.lines) THEN {}
    ELSE LET line == text.lines[n]
             line_source_start == line.source_mappings[1].source_index
         IN  IF range_start > line.source_end
             THEN TextCallsFrom(text, n + 1, range_start, range_end)
             ELSE IF range_end < line_source_start THEN {}
             ELSE (IF range_start < line_source_start THEN {}
                   ELSE { Call(line, range_start) })
                  \cup { Call(line, IF range_end > line.source_end
                                   THEN line.source_end ELSE range_end) }
                  \cup TextCallsFrom(text, n + 1, range_start, range_end)

text_for_range_calls(text, range_start, range_end) ==
    TextCallsFrom(text, 1, range_start, range_end)

\* The slices text[start..end] that RenderedText::text_for_range takes, from
\* line n (from 1) on: the line, and the start and the end computed for it.
RECURSIVE SlicesFrom(_, _, _, _)
SlicesFrom(text, n, range_start, range_end) ==
    IF n > Len(text.lines) THEN {}
    ELSE LET line == text.lines[n]
             line_source_start == line.source_mappings[1].source_index
             start == IF range_start < line_source_start THEN 0
                      ELSE rendered_index_for_source_index(line, range_start)
             end == Min(IF range_end > line.source_end
                        THEN rendered_index_for_source_index(line, line.source_end)
                        ELSE rendered_index_for_source_index(line, range_end),
                        Len(line.text))
         IN  IF range_start > line.source_end
             THEN SlicesFrom(text, n + 1, range_start, range_end)
             ELSE IF range_end < line_source_start THEN {}
             ELSE { [line |-> line, start |-> start, end |-> end] }
                  \cup (IF start > end THEN {}
                        ELSE SlicesFrom(text, n + 1, range_start, range_end))

text_for_range_slices(text, range_start, range_end) ==
    SlicesFrom(text, 1, range_start, range_end)

\* ---------------------------------------------------------------- fences
\* str::find of a pattern: the least offset where it occurs, or -1 when none.
Find(s, pat) ==
    LET hits == { i \in 0 .. Len(s) : OccursAt(s, pat, i) }
    IN  IF hits = {} THEN -1 ELSE CHOOSE i \in hits : \A j \in hits : i <= j

\* str::rfind of a pattern: the greatest offset where it occurs, or -1 when none.
RFind(s, pat) ==
    LET hits == { i \in 0 .. Len(s) : OccursAt(s, pat, i) }
    IN  IF hits = {} THEN -1 ELSE CHOOSE i \in hits : \A j \in hits : j <= i


\* A without_fences that strips the backticks of the opening fence only, and
\* keeps the rest of its line.
without_fences_keeping_language(markdown) ==
    LET opening_backticks == Find(markdown, Backticks)
        body == IF opening_backticks >= 0
                THEN Slice(markdown, opening_backticks + Len(Backticks), Len(markdown))
                ELSE markdown
        closing_backticks == RFind(body, Backticks)
    IN  IF closing_backticks >= 0 THEN Slice(body, 0, closing_backticks) ELSE body

\* without_fences
without_fences(markdown) ==
    LET opening_backticks == Find(markdown, Backticks)
        opened == IF opening_backticks >= 0
                  THEN Slice(markdown, opening_backticks, Len(markdown))
                  ELSE markdown
        newline == Find(opened, <<"\n">>)
        body == IF opening_backticks >= 0 /\ newline >= 0
                THEN Slice(opened, newline + 1, Len(opened))
                ELSE opened
        closing_backticks == RFind(body, Backticks)
    IN  IF closing_backticks >= 0 THEN Slice(body, 0, closing_backticks) ELSE body

\* ---------------------------------------------------------------- selection
\* Selection::tail
tail(sel) == IF sel.reversed THEN sel.end ELSE sel.start

\* set_head that moves the end to the head, whichever side of the tail it is.
set_head_without_swap(sel, head) == [sel EXCEPT !.end = head]

\* set_head that never changes which end is the head.
set_head_keeping_direction(sel, head) ==
    IF sel.reversed THEN [sel EXCEPT !.start = head] ELSE [sel EXCEPT !.end = head]

\* Selection::set_head
set_head(sel, head) ==
    IF head < tail(sel)
    THEN [(IF ~sel.reversed
           THEN [sel EXCEPT !.end = sel.start, !.reversed = TRUE]
           ELSE sel) EXCEPT !.start = head]
    ELSE [(IF sel.reversed
           THEN [sel EXCEPT !.start = sel.end, !.reversed = FALSE]
           ELSE sel) EXCEPT !.end = head]

\* ---------------------------------------------------------------- parse
\* parse without the check of pending_parse: every request spawns a task.
parse_without_pending_check(src, pending, dirty, text_only, ver) ==
    IF src = <<>>
    THEN [pending_parse |-> pending, should_reparse |-> dirty, spawned |-> None]
    ELSE LET task == [source |-> src, parse_text_only |-> text_only, version |-> ver]
         IN  [pending_parse |-> Some(task), should_reparse |-> FALSE,
              spawned |-> Some(task)]

\* parse that forgets a request made while a parse is in flight.
parse_dropping_request(src, pending, dirty, text_only, ver) ==
    IF src = <<>> \/ pending # None
    THEN [pending_parse |-> pending, should_reparse |-> dirty, spawned |-> None]
    ELSE LET task == [source |-> src, parse_text_only |-> text_only, version |-> ver]
         IN  [pending_parse |-> Some(task), should_reparse |-> FALSE,
              spawned |-> Some(task)]

\* parse without the check for an empty source.
parse_without_empty_check(src, pending, dirty, text_only, ver) ==
    IF pending # None
    THEN [pending_parse |-> pending, should_reparse |-> TRUE, spawned |-> None]
    ELSE LET task == [source |-> src, parse_text_only |-> text_only, version |-> ver]
         IN  [pending_parse |-> Some(task), should_reparse |-> FALSE,
              spawned |-> Some(task)]

\* Markdown::parse, as a function of the fields it reads; the result holds the
\* fields it writes and the task it spawns (None when it spawns none).
parse(src, pending, dirty, text_only, ver) ==
    IF src = <<>>
    THEN [pending_parse |-> pending, should_reparse |-> dirty, spawned |-> None]
    ELSE IF pending # None
    THEN [pending_parse |-> pending, should_reparse |-> TRUE, spawned |-> None]
    ELSE LET task == [source |-> src, parse_text_only |-> text_only, version |-> ver]
         IN  [pending_parse |-> Some(task), should_reparse |-> FALSE,
              spawned |-> Some(task)]

\* The tasks a call of parse hands to the executor.
Spawned(p) == IF p.spawned = None THEN {} ELSE {Unwrap(p.spawned)}

\* Dropping a task handle cancels the task: it is removed from the executor.
Dropped(handle) == IF handle = None THEN {} ELSE {Unwrap(handle)}

\* ---------------------------------------------------------------- actions
\* The calls a handler makes on the app: cx.notify(), cx.open_url(url) and
\* the handler the host supplied, open_url(url, window, cx).
Notify == [call |-> "cx.notify", url |-> <<>>]
OpenUrl(url) == [call |-> "cx.open_url", url |-> url]
Handler(url) == [call |-> "open_url", url |-> url]

\* ------------------------------------------- the workspace's notifications
\* NotificationId: Unique(TypeId), Composite(TypeId, ElementId), Named(name).
\* Equality is the derived one: same variant, same fields.
Unique(type) == <<"Unique", type>>
Composite(type, element) == <<"Composite", type, element>>
Named(name) == <<"Named", name>>

\* Toast: the id and the autohide flag; msg and on_click only reach the view.
Toast(id, autohide) == [id |-> id, autohide |-> autohide]

\* The ids of show_error and of show_portal_error.
WorkspaceErrorNotification == Unique("WorkspaceErrorNotification")
PortalError == Unique("PortalError")

\* Workspace::new and an application that has tracked nothing yet.
workspace_new ==
    /\ notifications = <<>>
    /\ notifications_sent = [view \in {} |-> <<>>]
    /\ timers = {}
    /\ next_entity = 0

\* dismiss_notification_internal that retains every pair.
dismiss_notification_internal_retaining_all(list, id) == list

\* Workspace::dismiss_notification_internal: retain the pairs of another id.
dismiss_notification_internal(list, id) ==
    SelectSeq(list, LAMBDA entry : entry.id # id)

\* The (id, notification) pair show_notification pushes; the view it builds
\* is a new entity of the application.
Shown(id, entity) == [id |-> id, notification |-> entity]

\* Workspace::show_notification on the list: dismiss the id, build, push.
ShowNotification(list, id, entity) ==
    Append(dismiss_notification_internal(list, id), Shown(id, entity))

\* HashMap::get(..).map(|ids| ids.contains(id)).unwrap_or(false)
ids_contain(ids, id) == \E i \in 1 .. Len(ids) : ids[i] = id

\* Workspace::has_shown_notification_once::<V>
has_shown_notification_once(view, id) ==
    IF view \in DOMAIN notifications_sent
    THEN ids_contain(notifications_sent[view], id)
    ELSE FALSE

\* tracker.entry(TypeId::of::<V>()).or_default().push(id)
Tracked(tracker, view, id) ==
    [v \in DOMAIN tracker \cup {view} |->
        IF v = view
        THEN Append(IF view \in DOMAIN tracker THEN tracker[view] ELSE <<>>, id)
        ELSE tracker[v]]

\* Workspace::show_notification
show_notification(id) ==
    /\ next_entity < MaxEntities
    /\ notifications' = ShowNotification(notifications, id, next_entity)
    /\ next_entity' = next_entity + 1
    /\ UNCHANGED <<notifications_sent, timers, document, query, context_menu>>

\* Workspace::show_notification_once::<V>
show_notification_once(view, id) ==
    /\ IF ~has_shown_notification_once(view, id)
       THEN /\ next_entity < MaxEntities
            /\ notifications_sent' = Tracked(notifications_sent, view, id)
            /\ notifications' = ShowNotification(notifications, id, next_entity)
            /\ next_entity' = next_entity + 1
       ELSE UNCHANGED <<notifications_sent, notifications, next_entity>>
    /\ UNCHANGED <<timers, document, query, context_menu>>

\* Workspace::show_error
show_error ==
    /\ next_entity < MaxEntities
    /\ notifications' =
           ShowNotification(notifications, WorkspaceErrorNotification, next_entity)
    /\ next_entity' = next_entity + 1
    /\ UNCHANGED <<notifications_sent, timers, document, query, context_menu>>

\* Workspace::show_portal_error
show_portal_error ==
    /\ next_entity < MaxEntities
    /\ notifications' = ShowNotification(notifications, PortalError, next_entity)
    /\ next_entity' = next_entity + 1
    /\ UNCHANGED <<notifications_sent, timers, document, query, context_menu>>

\* Workspace::dismiss_notification
dismiss_notification(id) ==
    /\ notifications' = dismiss_notification_internal(notifications, id)
    /\ UNCHANGED <<notifications_sent, timers, next_entity, document, query,
                   context_menu>>

\* Workspace::show_toast: dismiss the id, show the toast and, when it hides
\* by itself, spawn the detached task that sleeps 5000 ms. The task holds
\* toast.id; started_by records the view this show_toast built.
show_toast(toast) ==
    /\ next_entity < MaxEntities
    /\ notifications' =
           ShowNotification(dismiss_notification_internal(notifications, toast.id),
                            toast.id, next_entity)
    /\ timers' = IF toast.autohide
                 THEN timers \cup {[id |-> toast.id, started_by |-> next_entity]}
                 ELSE timers
    /\ next_entity' = next_entity + 1
    /\ UNCHANGED <<notifications_sent, document, query, context_menu>>

\* The timer of an auto-hide task fires: workspace.dismiss_toast(&toast.id),
\* which is dismiss_notification(id).
dismiss_toast(timer) ==
    /\ timer \in timers
    /\ timers' = timers \ {timer}
    /\ notifications' = dismiss_notification_internal(notifications, timer.id)
    /\ UNCHANGED <<notifications_sent, next_entity, document, query, context_menu>>

\* A notification shown emits DismissEvent: the subscription show_notification
\* made for it runs dismiss_notification_internal with the id it captured.
on_dismiss_event(i) ==
    /\ i \in 1 .. Len(notifications)
    /\ notifications' = dismiss_notification_internal(notifications, notifications[i].id)
    /\ UNCHANGED <<notifications_sent, timers, next_entity, document, query,
                   context_menu>>

\* Workspace::clear_all_notifications
clear_all_notifications ==
    /\ notifications # <<>>
    /\ notifications' = <<>>
    /\ UNCHANGED <<notifications_sent, timers, next_entity, document, query,
                   context_menu>>

\* ---------------------------------------------------------- the context menu
\* ContextMenuItem: the fields selection and action dispatch read, and the
\* fields that tell the entries of the builder methods apart.
Separator == [kind |-> "Separator"]
Header == [kind |-> "Header"]
Label == [kind |-> "Label"]
Entry(toggle, icon, action, disabled) ==
    [kind |-> "Entry", toggle |-> toggle, icon |-> icon, action |-> action,
     disabled |-> disabled]
CustomEntry(selectable) == [kind |-> "CustomEntry", selectable |-> selectable]

\* ContextMenu::build before its closure has pushed anything.
ContextMenu_build ==
    /\ items = <<>>
    /\ selected_index = None
    /\ delayed = FALSE
    /\ clicked = FALSE
    /\ building = TRUE

\* is_selectable that takes every entry, disabled or not.
is_selectable_ignoring_disabled(item) ==
    CASE item.kind \in {"Header", "Separator", "Label"} -> FALSE
      [] item.kind = "Entry" -> TRUE
      [] item.kind = "CustomEntry" -> item.selectable

\* ContextMenuItem::is_selectable
is_selectable(item) ==
    CASE item.kind \in {"Header", "Separator", "Label"} -> FALSE
      [] item.kind = "Entry" -> ~item.disabled
      [] item.kind = "CustomEntry" -> item.selectable

\* The indices (from 0) of the selectable items among first .. last.
SelectableIn(first, last) ==
    {ix \in first .. last : ix < Len(items) /\ is_selectable(items[ix + 1])}

Least(indices) == CHOOSE ix \in indices : \A other \in indices : ix <= other
Greatest(indices) == CHOOSE ix \in indices : \A other \in indices : ix >= other

\* self.items.iter().position(|item| item.is_selectable())
FirstSelectable ==
    LET found == SelectableIn(0, Len(items) - 1)
    IN  IF found = {} THEN None ELSE Some(Least(found))

\* ContextMenu::select_last on selected_index: the last selectable item, or
\* the index as it was when there is none.
LastSelectable ==
    LET found == SelectableIn(0, Len(items) - 1)
    IN  IF found = {} THEN selected_index ELSE Some(Greatest(found))

\* The builder methods: each pushes one item.
push(item) ==
    /\ building
    /\ Len(items) < MaxItems
    /\ items' = Append(items, item)
    /\ UNCHANGED <<selected_index, delayed, clicked, building, document, query,
                   workspace>>

\* ContextMenu::header, separator, label
header == push(Header)
separator == push(Separator)
label == push(Label)

\* ContextMenu::entry, toggleable_entry
entry(action) == push(Entry(FALSE, FALSE, action, FALSE))
toggleable_entry(action) == push(Entry(TRUE, FALSE, action, FALSE))

\* ContextMenu::custom_row, custom_entry
custom_row == push(CustomEntry(FALSE))
custom_entry == push(CustomEntry(TRUE))

\* ContextMenu::action, disabled_action, link
action(a) == push(Entry(FALSE, FALSE, Some(a), FALSE))
disabled_action(a) == push(Entry(FALSE, FALSE, Some(a), TRUE))
menu_link(a) == push(Entry(FALSE, TRUE, Some(a), FALSE))

\* The closure of ContextMenu::build returns the menu.
build_returns ==
    /\ building
    /\ building' = FALSE
    /\ UNCHANGED <<items, selected_index, delayed, clicked, document, query,
                   workspace>>

\* ContextMenu::select_first
select_first ==
    /\ ~building
    /\ selected_index' = FirstSelectable
    /\ UNCHANGED <<items, delayed, clicked, building, document, query, workspace>>

\* ContextMenu::select_last, which is public and takes &mut self, so that the
\* closure of build can call it too; handle_select_last is the same on the
\* menu's fields.
select_last ==
    /\ selected_index' = LastSelectable
    /\ UNCHANGED <<items, delayed, clicked, building, document, query, workspace>>

\* ContextMenu::select_next
select_next ==
    /\ ~building
    /\ selected_index' =
           IF selected_index # None
           THEN LET next_index == Unwrap(selected_index) + 1
                    found == SelectableIn(next_index, Len(items) - 1)
                IN  IF Len(items) <= next_index
                    THEN FirstSelectable
                    ELSE IF found = {} THEN selected_index ELSE Some(Least(found))
           ELSE FirstSelectable
    /\ UNCHANGED <<items, delayed, clicked, building, document, query, workspace>>

\* ContextMenu::select_prev
select_prev ==
    /\ ~building
    /\ selected_index' =
           IF selected_index # None
           THEN LET ix == Unwrap(selected_index)
                    found == SelectableIn(0, ix - 1)
                IN  IF ix = 0
                    THEN LastSelectable
                    ELSE IF found = {} THEN selected_index ELSE Some(Greatest(found))
           ELSE LastSelectable
    /\ UNCHANGED <<items, delayed, clicked, building, document, query, workspace>>

\* The indices of the enabled entries whose action equals the dispatched one.
EntriesOf(dispatched) ==
    {ix \in 0 .. Len(items) - 1 :
        /\ items[ix + 1].kind = "Entry"
        /\ items[ix + 1].action = Some(dispatched)
        /\ ~items[ix + 1].disabled}

\* ContextMenu::on_action_dispatch: the fields it assigns. The task it spawns
\* emits DismissEvent and dispatches the action 50 ms later; it assigns no
\* field of the menu.
on_action_dispatch(dispatched) ==
    /\ ~building
    /\ IF ~clicked /\ EntriesOf(dispatched) # {}
       THEN /\ selected_index' = Some(Least(EntriesOf(dispatched)))
            /\ delayed' = TRUE
       ELSE UNCHANGED <<selected_index, delayed>>
    /\ UNCHANGED <<items, clicked, building, document, query, workspace>>

\* The on_click listener render gives an enabled entry and a selectable custom
\* entry: the handler of the item runs and the menu records the click.
on_click(ix) ==
    /\ ~building
    /\ ix \in 0 .. Len(items) - 1
    /\ \/ items[ix + 1].kind = "Entry" /\ ~items[ix + 1].disabled
       \/ items[ix + 1].kind = "CustomEntry" /\ items[ix + 1].selectable
    /\ clicked' = TRUE
    /\ UNCHANGED <<items, selected_index, delayed, building, document, query,
                   workspace>>

\* Markdown::new (text_only = FALSE) and Markdown::new_text (text_only = TRUE,
\* which takes no registry and no fallback), followed by Markdown::open_url
\* when the host supplies a handler: the state after construction.
new(src, text_only, registry, fallback, handler) ==
    LET p == parse(src, None, FALSE, text_only, 0) IN
    /\ source = src
    /\ selection = DefaultSelection
    /\ pressed_link = None
    /\ autoscroll_request = None
    /\ parsed_markdown = DefaultParsedMarkdown
    /\ should_reparse = p.should_reparse
    /\ pending_parse = p.pending_parse
    /\ options = [parse_links_only |-> text_only, copy_code_block_buttons |-> TRUE]
    /\ rendered_text = None
    /\ tasks = Spawned(p)
    /\ version = 0
    /\ committed_version = -1
    /\ clipboard = None
    /\ query = None
    /\ language_registry = registry
    /\ fallback_code_block_language = fallback
    /\ open_url = handler

Init ==
    /\ \E src \in InitSources, text_only \in BOOLEAN : new(src, text_only, None, None, None)
    /\ workspace_new
    /\ ContextMenu_build

\* append that drops the parse in flight and starts over.
append_cancelling(text) ==
    /\ version < MaxVersion
    /\ LET src == source \o text
           p == parse(src, None, FALSE, options.parse_links_only, version + 1)
       IN  /\ source' = src
           /\ should_reparse' = p.should_reparse
           /\ pending_parse' = p.pending_parse
           /\ tasks' = (tasks \ Dropped(pending_parse)) \cup Spawned(p)
    /\ version' = version + 1
    /\ UNCHANGED <<selection, pressed_link, autoscroll_request, parsed_markdown,
                   options, rendered_text, committed_version, clipboard,
                   query, configuration, other_entities>>

\* append that also drops the selection.
append_clearing_selection(text) ==
    /\ version < MaxVersion
    /\ LET src == source \o text
           p == parse(src, pending_parse, should_reparse, options.parse_links_only, version + 1)
       IN  /\ source' = src
           /\ should_reparse' = p.should_reparse
           /\ pending_parse' = p.pending_parse
           /\ tasks' = tasks \cup Spawned(p)
    /\ version' = version + 1
    /\ selection' = DefaultSelection
    /\ UNCHANGED <<pressed_link, autoscroll_request, parsed_markdown,
                   options, rendered_text, committed_version, clipboard,
                   query, configuration, other_entities>>

\* append that requests no parse.
append_without_parse(text) ==
    /\ version < MaxVersion
    /\ source' = source \o text
    /\ version' = version + 1
    /\ UNCHANGED <<selection, pressed_link, autoscroll_request, parsed_markdown,
                   should_reparse, pending_parse, tasks,
                   options, rendered_text, committed_version, clipboard,
                   query, configuration, other_entities>>

\* Markdown::append
append(text) ==
    /\ version < MaxVersion
    /\ LET src == source \o text
           p == parse(src, pending_parse, should_reparse, options.parse_links_only, version + 1)
       IN  /\ source' = src
           /\ should_reparse' = p.should_reparse
           /\ pending_parse' = p.pending_parse
           /\ tasks' = tasks \cup Spawned(p)
    /\ version' = version + 1
    /\ UNCHANGED <<selection, pressed_link, autoscroll_request, parsed_markdown,
                   options, rendered_text, committed_version, clipboard,
                   query, configuration, other_entities>>

\* reset that leaves the parse in flight running (a detached task).
reset_without_cancel(src) ==
    IF src = source
    THEN UNCHANGED vars
    ELSE /\ version < MaxVersion
         /\ LET p == parse(src, None, FALSE, options.parse_links_only, version + 1) IN
            /\ source' = src
            /\ selection' = DefaultSelection
            /\ autoscroll_request' = None
            /\ parsed_markdown' = DefaultParsedMarkdown
            /\ should_reparse' = p.should_reparse
            /\ pending_parse' = p.pending_parse
            /\ tasks' = tasks \cup Spawned(p)
         /\ version' = version + 1
         /\ UNCHANGED <<pressed_link, options, rendered_text, committed_version, clipboard,
                        query, configuration, other_entities>>

\* reset that keeps the cache.
reset_keeping_cache(src) ==
    IF src = source
    THEN UNCHANGED vars
    ELSE /\ version < MaxVersion
         /\ LET p == parse(src, None, FALSE, options.parse_links_only, version + 1) IN
            /\ source' = src
            /\ selection' = DefaultSelection
            /\ autoscroll_request' = None
            /\ should_reparse' = p.should_reparse
            /\ pending_parse' = p.pending_parse
            /\ tasks' = (tasks \ Dropped(pending_parse)) \cup Spawned(p)
         /\ version' = version + 1
         /\ UNCHANGED <<pressed_link, parsed_markdown, options, rendered_text,
                        committed_version, clipboard, query, configuration, other_entities>>

\* reset that leaves the dirty flag as it is.
reset_keeping_dirty_flag(src) ==
    IF src = source
    THEN UNCHANGED vars
    ELSE /\ version < MaxVersion
         /\ LET p == parse(src, None, should_reparse, options.parse_links_only,
                           version + 1) IN
            /\ source' = src
            /\ selection' = DefaultSelection
            /\ autoscroll_request' = None
            /\ parsed_markdown' = DefaultParsedMarkdown
            /\ should_reparse' = p.should_reparse
            /\ pending_parse' = p.pending_parse
            /\ tasks' = (tasks \ Dropped(pending_parse)) \cup Spawned(p)
         /\ version' = version + 1
         /\ UNCHANGED <<pressed_link, options, rendered_text, committed_version, clipboard,
                        query, configuration, other_entities>>

\* reset without the comparison with the current source.
reset_unguarded(src) ==
    /\ version < MaxVersion
    /\ LET p == parse(src, None, FALSE, options.parse_links_only, version + 1) IN
       /\ source' = src
       /\ selection' = DefaultSelection
       /\ autoscroll_request' = None
       /\ parsed_markdown' = DefaultParsedMarkdown
       /\ should_reparse' = p.should_reparse
       /\ pending_parse' = p.pending_parse
       /\ tasks' = (tasks \ Dropped(pending_parse)) \cup Spawned(p)
    /\ version' = version + 1
    /\ UNCHANGED <<pressed_link, options, rendered_text, committed_version, clipboard,
                   query, configuration, other_entities>>

\* Markdown::reset
reset(src) ==
    IF src = source
    THEN UNCHANGED vars
    ELSE /\ version < MaxVersion
         /\ LET p == parse(src, None, FALSE, options.parse_links_only, version + 1) IN
            /\ source' = src
            /\ selection' = DefaultSelection
            /\ autoscroll_request' = None
            /\ parsed_markdown' = DefaultParsedMarkdown
            /\ should_reparse' = p.should_reparse
            /\ pending_parse' = p.pending_parse
            /\ tasks' = (tasks \ Dropped(pending_parse)) \cup Spawned(p)
         /\ version' = version + 1
         /\ UNCHANGED <<pressed_link, options, rendered_text, committed_version, clipboard,
                        query, configuration, other_entities>>

\* A completion whose retry parses the snapshot of the finished task again.
parse_completion_stale_retry(task) ==
    /\ task \in tasks
    /\ LET p == IF should_reparse
                THEN parse(task.source, None, should_reparse, options.parse_links_only,
                           version)
                ELSE [pending_parse |-> None, should_reparse |-> should_reparse,
                      spawned |-> None]
       IN  /\ parsed_markdown' = ParseResult(task)
           /\ should_reparse' = p.should_reparse
           /\ pending_parse' = p.pending_parse
           /\ tasks' = (tasks \ ({task} \cup Dropped(pending_parse))) \cup Spawned(p)
    /\ committed_version' = task.version
    /\ UNCHANGED <<source, selection, pressed_link, autoscroll_request,
                   options, rendered_text, version, clipboard,
                   query, configuration, other_entities>>

\* The completion closure of Markdown::parse, run when the task finishes.
parse_completion(task) ==
    /\ task \in tasks
    /\ LET p == IF should_reparse
                THEN parse(source, None, should_reparse, options.parse_links_only, version)
                ELSE [pending_parse |-> None, should_reparse |-> should_reparse,
                      spawned |-> None]
       IN  /\ parsed_markdown' = ParseResult(task)
           /\ should_reparse' = p.should_reparse
           /\ pending_parse' = p.pending_parse
           /\ tasks' = (tasks \ ({task} \cup Dropped(pending_parse))) \cup Spawned(p)
    /\ committed_version' = task.version
    /\ UNCHANGED <<source, selection, pressed_link, autoscroll_request,
                   options, rendered_text, version, clipboard,
                   query, configuration, other_entities>>

\* Hitbox::is_hovered: the element covers the rows of its lines and their
\* margins, from column 0 on.
is_hovered(text, position) ==
    /\ position.x >= 0
    /\ position.y >= 0
    /\ position.y < LineTop(Len(text.lines))

\* One frame: MarkdownElement::request_layout, prepaint (autoscroll takes the
\* request) and paint (the mouse listeners capture the new RenderedText).
paint ==
    /\ rendered_text' = Some(request_layout(parsed_markdown))
    /\ autoscroll_request' = None
    /\ UNCHANGED <<source, selection, pressed_link, parsed_markdown, should_reparse,
                   pending_parse, options, tasks, version, committed_version,
                   clipboard, query, configuration, other_entities>>

\* mouse_down that extends the selection from where it starts, as a click
\* with the shift key held would.
mouse_down_extending(position, click_count) ==
    /\ rendered_text # None
    /\ LET text == Unwrap(rendered_text)
           link == link_for_position(text, position)
           source_index == source_index_for_position(text, position).ix
           range == IF click_count = 2 THEN surrounding_word_range(text, source_index)
                    ELSE IF click_count = 3 THEN surrounding_line_range(text, source_index)
                    ELSE <<source_index, source_index>>
       IN  IF is_hovered(text, position)
           THEN IF link # None
                THEN /\ pressed_link' = link
                     /\ UNCHANGED selection
                ELSE /\ selection' = [start |-> Min(selection.start, range[1]),
                                      end |-> range[2],
                                      reversed |-> FALSE, pending |-> TRUE]
                     /\ UNCHANGED pressed_link
           ELSE /\ selection' = DefaultSelection
                /\ pressed_link' = None
    /\ UNCHANGED <<source, autoscroll_request, parsed_markdown, should_reparse,
                   pending_parse, options, rendered_text, tasks, version,
                   committed_version, clipboard, query, configuration, other_entities>>

\* mouse_down that drops the selection when a link is pressed.
mouse_down_on_link_clearing_selection(position, click_count) ==
    /\ rendered_text # None
    /\ LET text == Unwrap(rendered_text)
           link == link_for_position(text, position)
           source_index == source_index_for_position(text, position).ix
           range == IF click_count = 2 THEN surrounding_word_range(text, source_index)
                    ELSE IF click_count = 3 THEN surrounding_line_range(text, source_index)
                    ELSE <<source_index, source_index>>
       IN  IF is_hovered(text, position)
           THEN IF link # None
                THEN /\ pressed_link' = link
                     /\ selection' = DefaultSelection
                ELSE /\ selection' = [start |-> range[1], end |-> range[2],
                                      reversed |-> FALSE, pending |-> TRUE]
                     /\ UNCHANGED pressed_link
           ELSE /\ selection' = DefaultSelection
                /\ pressed_link' = None
    /\ UNCHANGED <<source, autoscroll_request, parsed_markdown, should_reparse,
                   pending_parse, options, rendered_text, tasks, version,
                   committed_version, clipboard, query, configuration, other_entities>>

\* mouse_down whose click outside the element leaves the pressed link.
mouse_down_keeping_pressed_link(position, click_count) ==
    /\ rendered_text # None
    /\ LET text == Unwrap(rendered_text)
           link == link_for_position(text, position)
           source_index == source_index_for_position(text, position).ix
           range == IF click_count = 2 THEN surrounding_word_range(text, source_index)
                    ELSE IF click_count = 3 THEN surrounding_line_range(text, source_index)
                    ELSE <<source_index, source_index>>
       IN  IF is_hovered(text, position)
           THEN IF link # None
                THEN /\ pressed_link' = link
                     /\ UNCHANGED selection
                ELSE /\ selection' = [start |-> range[1], end |-> range[2],
                                      reversed |-> FALSE, pending |-> TRUE]
                     /\ UNCHANGED pressed_link
           ELSE /\ selection' = DefaultSelection
                /\ UNCHANGED pressed_link
    /\ UNCHANGED <<source, autoscroll_request, parsed_markdown, should_reparse,
                   pending_parse, options, rendered_text, tasks, version,
                   committed_version, clipboard, query, configuration, other_entities>>

\* The MouseDownEvent listener of paint_mouse_listeners, over the capture and
\* the bubble phase of one event.
mouse_down(position, click_count) ==
    /\ rendered_text # None
    /\ LET text == Unwrap(rendered_text)
           link == link_for_position(text, position)
           source_index == source_index_for_position(text, position).ix
           range == IF click_count = 2 THEN surrounding_word_range(text, source_index)
                    ELSE IF click_count = 3 THEN surrounding_line_range(text, source_index)
                    ELSE <<source_index, source_index>>
       IN  IF is_hovered(text, position)
           THEN IF link # None
                THEN /\ pressed_link' = link
                     /\ UNCHANGED selection
                ELSE /\ selection' = [start |-> range[1], end |-> range[2],
                                      reversed |-> FALSE, pending |-> TRUE]
                     /\ UNCHANGED pressed_link
           ELSE /\ selection' = DefaultSelection
                /\ pressed_link' = None
    /\ UNCHANGED <<source, autoscroll_request, parsed_markdown, should_reparse,
                   pending_parse, options, rendered_text, tasks, version,
                   committed_version, clipboard, query, configuration, other_entities>>

\* mouse_move that asks for no autoscroll.
mouse_move_without_autoscroll(position) ==
    /\ rendered_text # None
    /\ LET text == Unwrap(rendered_text)
           source_index == source_index_for_position(text, position).ix
       IN  IF selection.pending
           THEN /\ selection' = set_head(selection, source_index)
                /\ UNCHANGED autoscroll_request
           ELSE UNCHANGED <<selection, autoscroll_request>>
    /\ UNCHANGED <<source, pressed_link, parsed_markdown, should_reparse,
                   pending_parse, options, rendered_text, tasks, version,
                   committed_version, clipboard, query, configuration, other_entities>>

\* The MouseMoveEvent listener of paint_mouse_listeners.
mouse_move(position) ==
    /\ rendered_text # None
    /\ LET text == Unwrap(rendered_text)
           source_index == source_index_for_position(text, position).ix
       IN  IF selection.pending
           THEN /\ selection' = set_head(selection, source_index)
                /\ autoscroll_request' = Some(source_index)
           ELSE UNCHANGED <<selection, autoscroll_request>>
    /\ UNCHANGED <<source, pressed_link, parsed_markdown, should_reparse,
                   pending_parse, options, rendered_text, tasks, version,
                   committed_version, clipboard, query, configuration, other_entities>>

\* The call that opens a link: the handler of the host when there is one,
\* cx.open_url otherwise.
open(handler, url) == IF handler # None THEN Handler(url) ELSE OpenUrl(url)

\* mouse_up that ends the drag with the selection collapsed to its head.
mouse_up_collapsing ==
    /\ rendered_text # None
    /\ selection' = IF selection.pending
                    THEN [start |-> selection.end, end |-> selection.end,
                          reversed |-> FALSE, pending |-> FALSE]
                    ELSE selection
    /\ pressed_link' = None
    /\ UNCHANGED <<source, autoscroll_request, parsed_markdown, should_reparse,
                   pending_parse, options, rendered_text, tasks, version,
                   committed_version, clipboard, query, configuration, other_entities>>

\* The MouseUpEvent listener of paint_mouse_listeners, over the capture phase
\* (the drag ends) and the bubble phase (the pressed link is taken); the calls
\* it makes, which depend on where the mouse is released, are mouse_up_calls.
\* The primary selection that Linux and FreeBSD builds write is not the
\* clipboard.
mouse_up ==
    /\ rendered_text # None
    /\ selection' = [selection EXCEPT !.pending = FALSE]
    /\ pressed_link' = None
    /\ UNCHANGED <<source, autoscroll_request, parsed_markdown, should_reparse,
                   pending_parse, options, rendered_text, tasks, version,
                   committed_version, clipboard, query, configuration, other_entities>>

\* The hover state that paint_mouse_listeners computes for the listeners of a
\* frame, from the RenderedText of the frame, the selection and
\* window.mouse_position().
is_hovering_link(text, pending, mouse_position) ==
    /\ is_hovered(text, mouse_position)
    /\ ~pending
    /\ link_for_position(text, mouse_position) # None

\* The calls of a MouseMoveEvent listener that refreshes on every move.
mouse_move_calls_on_every_move(text, pending, was_hovering_link, position) == {Notify}

\* The calls the MouseMoveEvent listener makes, given the hover state it
\* captured when it was painted.
mouse_move_calls(text, pending, was_hovering_link, position) ==
    IF pending
    THEN {Notify}
    ELSE IF (/\ is_hovered(text, position)
             /\ link_for_position(text, position) # None) # was_hovering_link
    THEN {Notify}
    ELSE {}

\* The calls of a MouseUpEvent listener that takes two links of one URL for
\* the same link.
mouse_up_calls_comparing_urls(text, pending, pressed, handler, position) ==
    LET released == link_for_position(text, position)
    IN  (IF pending THEN {Notify} ELSE {})
        \cup (IF /\ pressed # None
                 /\ released # None
                 /\ Unwrap(pressed).destination_url = Unwrap(released).destination_url
              THEN {open(handler, Unwrap(pressed).destination_url)}
              ELSE {})

\* The calls the MouseUpEvent listener makes when the mouse is released at
\* position: cx.notify() in the capture phase when a drag ends, and in the
\* bubble phase the opening of the pressed link when the mouse is still on it.
mouse_up_calls(text, pending, pressed, handler, position) ==
    (IF pending THEN {Notify} ELSE {})
    \cup (IF pressed # None /\ pressed = link_for_position(text, position)
          THEN {open(handler, Unwrap(pressed).destination_url)}
          ELSE {})

\* copy that marks the document for a re-parse.
copy_requesting_parse ==
    /\ rendered_text # None
    /\ LET text == text_for_range(Unwrap(rendered_text), selection.start, selection.end)
       IN  IF selection.end <= selection.start
           THEN UNCHANGED clipboard
           ELSE ~text.panic /\ clipboard' = Some(text.value)
    /\ should_reparse' = TRUE
    /\ UNCHANGED <<source, selection, pressed_link, autoscroll_request, parsed_markdown,
                   pending_parse, options, rendered_text, tasks,
                   version, committed_version, query, configuration, other_entities>>

\* copy without the check of the selection: it writes whatever the range gives.
copy_without_guard ==
    /\ rendered_text # None
    /\ LET text == text_for_range(Unwrap(rendered_text), selection.start, selection.end)
       IN  IF text.panic THEN clipboard' = Some(<<>>) ELSE clipboard' = Some(text.value)
    /\ UNCHANGED <<source, selection, pressed_link, autoscroll_request, parsed_markdown,
                   should_reparse, pending_parse, options, rendered_text, tasks,
                   version, committed_version, query, configuration, other_entities>>

\* Markdown::copy, run by the Copy action handler that paint registers with
\* the RenderedText of that frame.
copy ==
    /\ rendered_text # None
    /\ LET text == text_for_range(Unwrap(rendered_text), selection.start, selection.end)
       IN  IF selection.end <= selection.start
           THEN UNCHANGED clipboard
           ELSE ~text.panic /\ clipboard' = Some(text.value)
    /\ UNCHANGED <<source, selection, pressed_link, autoscroll_request, parsed_markdown,
                   should_reparse, pending_parse, options, rendered_text, tasks,
                   version, committed_version, query, configuration, other_entities>>

\* ---------------------------------------------------------------- lookups
\* Texts of code blocks: a fenced block, made of the text before the fence,
\* the language name, the body and the text after the closing fence.
Fenced(prefix, language, body, suffix) ==
    prefix \o Backticks \o language \o <<"\n">> \o body \o Backticks \o suffix
FencePrefixes == { <<>>, <<" ">> }
FenceLanguages == { <<>>, <<"r">> }
FenceBodies == { <<>>, <<"x">>, <<"x", "\n">>, <<"x", "\n", "y", "\n">> }
FenceSuffixes == { <<>>, <<" ">> }
FencedTexts ==
    { Fenced(prefix, language, body, suffix) :
        prefix \in FencePrefixes, language \in FenceLanguages,
        body \in FenceBodies, suffix \in FenceSuffixes }
\* Texts that hold no fence: two backticks are none.
UnfencedTexts == { <<>>, <<"x">>, <<"x", "\n", "y">>, <<"~", "~", "x">> }
\* A fence that is never closed.
UnclosedTexts == { Backticks \o <<"r", "\n", "x">>, Backticks }
CodeBlockTexts == FencedTexts \cup UnfencedTexts \cup UnclosedTexts

\* RenderedText::position_for_source_index of an offset, and
\* RenderedText::source_index_for_position of the point it returns.
round_trip(source_index) ==
    /\ rendered_text # None
    /\ LET text == Unwrap(rendered_text)
           position == position_for_source_index(text, source_index)
       IN  query' = Some([op |-> "round_trip",
                          text |-> text,
                          source_index |-> source_index,
                          position |-> position,
                          result |-> IF position = None THEN None
                                     ELSE Some(source_index_for_position(
                                                   text, Unwrap(position)))])
    /\ UNCHANGED <<document, other_entities>>

\* RenderedText::surrounding_word_range of an offset.
word_range(source_index) ==
    /\ rendered_text # None
    /\ query' = Some([op |-> "surrounding_word_range",
                      text |-> Unwrap(rendered_text),
                      source_index |-> source_index,
                      result |-> surrounding_word_range(Unwrap(rendered_text),
                                                        source_index)])
    /\ UNCHANGED <<document, other_entities>>

\* RenderedText::text_for_range of a range.
range_text(range_start, range_end) ==
    /\ rendered_text # None
    /\ range_start <= range_end
    /\ query' = Some([op |-> "text_for_range",
                      text |-> Unwrap(rendered_text),
                      range |-> <<range_start, range_end>>,
                      result |-> text_for_range(Unwrap(rendered_text),
                                                range_start, range_end)])
    /\ UNCHANGED <<document, other_entities>>

\* RenderedText::link_for_position of a point.
link_at(position) ==
    /\ rendered_text # None
    /\ query' = Some([op |-> "link_for_position",
                      text |-> Unwrap(rendered_text),
                      position |-> position,
                      result |-> link_for_position(Unwrap(rendered_text), position)])
    /\ UNCHANGED <<document, other_entities>>

\* RenderedText::source_index_for_position of a point.
offset_at(position) ==
    /\ rendered_text # None
    /\ query' = Some([op |-> "source_index_for_position",
                      text |-> Unwrap(rendered_text),
                      position |-> position,
                      result |-> source_index_for_position(Unwrap(rendered_text),
                                                           position)])
    /\ UNCHANGED <<document, other_entities>>

\* RenderedLine::rendered_index_for_source_index and
\* RenderedLine::source_index_for_rendered_index of rendered line n (from 1),
\* each of the index and of the index before it.
translate(n, index) ==
    /\ rendered_text # None
    /\ n \in 1 .. Len(Unwrap(rendered_text).lines)
    /\ LET line == Unwrap(rendered_text).lines[n]
       IN  query' = Some([op |-> "translate",
                          line |-> line,
                          index |-> index,
                          rendered |-> rendered_index_for_source_index(line, index),
                          source |-> source_index_for_rendered_index(line, index),
                          rendered_before |->
                              rendered_index_for_source_index(line, index - 1),
                          source_before |->
                              source_index_for_rendered_index(line, index - 1)])
    /\ UNCHANGED <<document, other_entities>>

\* The stacks of the builder.
Stacks(b) ==
    [div_stack |-> b.div_stack,
     text_style_stack |-> b.text_style_stack,
     code_block_stack |-> b.code_block_stack,
     list_stack |-> b.list_stack]

\* The layout in progress: the events iterated so far, the builder, and for
\* every tag that is open the stacks of the builder before its start.
LayingOut == query # None /\ Unwrap(query).op = "request_layout" /\ ~Unwrap(query).built
Innermost ==
    IF Unwrap(query).open = <<>> THEN "Document"
    ELSE Unwrap(query).open[Len(Unwrap(query).open)].tag.name
EventsLeft ==
    Cardinality({ i \in 1 .. Len(Unwrap(query).events) :
                    Unwrap(query).events[i].kind # "End" }) < MaxEvents

\* MarkdownElement::request_layout, up to the loop over the events.
layout_begin ==
    /\ query' = Some([op |-> "request_layout",
                      events |-> <<>>,
                      builder |-> NewBuilder,
                      open |-> <<>>,
                      built |-> FALSE])
    /\ UNCHANGED <<document, other_entities>>

\* One iteration of the loop, on the event ev that opens or closes a tag as
\* told, or does neither.
layout_iteration(ev, opened, closed) ==
    LET layout == Unwrap(query)
        closing == IF closed THEN PopVec(layout.open) ELSE layout.open
    IN  /\ query' = Some([layout EXCEPT
              !.events = Append(@, ev),
              !.builder = LayoutEvent(@, ev, DefaultParsedMarkdown.languages),
              !.open = IF opened
                       THEN Append(closing, [tag |-> ev.tag,
                                             stacks |-> Stacks(layout.builder)])
                       ELSE closing])
        /\ UNCHANGED <<document, other_entities>>

\* The iteration on the start of a tag.
layout_start(tag) ==
    /\ LayingOut
    /\ EventsLeft
    /\ tag \in TagsInside(Innermost)
    /\ LET a == Unwrap(query).builder.current_source_index
       IN  layout_iteration(StartEvent(a, a + 1, tag), TRUE, FALSE)

\* The iteration on the end of the innermost open tag.
layout_end ==
    /\ LayingOut
    /\ Unwrap(query).open # <<>>
    /\ LET a == Unwrap(query).builder.current_source_index
       IN  layout_iteration(EndEvent(a, a, Unwrap(query).open[Len(Unwrap(query).open)].tag),
                            FALSE, TRUE)

\* The iteration on an event that is no tag.
layout_leaf(kind) ==
    /\ LayingOut
    /\ EventsLeft
    /\ kind \in LeavesInside(Innermost)
    /\ layout_iteration(LeafEvent(kind, Innermost,
                                  Unwrap(query).builder.current_source_index),
                        FALSE, FALSE)

\* The end of MarkdownElement::request_layout: the builder builds.
layout_build ==
    /\ LayingOut
    /\ Unwrap(query).open = <<>>
    /\ query' = Some([Unwrap(query) EXCEPT !.built = TRUE])
    /\ UNCHANGED <<document, other_entities>>

\* without_fences of the text of a code block.
strip_fences(markdown) ==
    /\ query' = Some([op |-> "without_fences",
                      markdown |-> markdown,
                      result |-> without_fences(markdown)])
    /\ UNCHANGED <<document, other_entities>>

\* Selections that start no later than they end, and the heads they are
\* moved to.
Selections ==
    { sel \in [start : 0 .. MaxOffset, end : 0 .. MaxOffset,
               reversed : BOOLEAN, pending : BOOLEAN] : sel.start <= sel.end }
Heads == 0 .. MaxOffset

\* Selection::set_head of a selection and a head.
move_head(sel, head) ==
    /\ query' = Some([op |-> "set_head",
                      selection |-> sel,
                      head |-> head,
                      result |-> set_head(sel, head)])
    /\ UNCHANGED <<document, other_entities>>

\* The host's mutations of the source and the executor's completions.
SchedulerNext ==
    \/ \E text \in AppendTexts : append(text)
    \/ \E src \in ResetSources : reset(src)
    \/ \E task \in tasks : parse_completion(task)

Next ==
    \/ SchedulerNext
    \/ paint
    \/ \E position \in MousePositions, click_count \in ClickCounts :
          mouse_down(position, click_count)
    \/ \E position \in MousePositions : mouse_move(position)
    \/ mouse_up

Spec == Init /\ [][Next]_vars

\* The parse scheduler alone: no frame is painted and no mouse event arrives.
SchedulerSpec == Init /\ [][SchedulerNext]_vars

\* Every spawned parse task that is not dropped runs to completion.
FairSchedulerSpec ==
    SchedulerSpec /\ WF_vars(\E task \in tasks : parse_completion(task))

\* A document that text is appended to while the mouse and the Copy action
\* act on it.
InteractionInit ==
    /\ \E src \in InteractionSources : new(src, FALSE, None, None, None)
    /\ workspace_new
    /\ ContextMenu_build

InteractionNext ==
    \/ version < MaxAppends /\ \E text \in AppendTexts : append(text)
    \/ \E task \in tasks : parse_completion(task)
    \/ paint
    \/ \E position \in MousePositions, click_count \in ClickCounts :
          mouse_down(position, click_count)
    \/ \E position \in MousePositions : mouse_move(position)
    \/ mouse_up
    \/ copy

InteractionSpec == InteractionInit /\ [][InteractionNext]_vars

\* A document constructed, parsed and rendered, and the lookups of its
\* rendered text.
QueryInit ==
    /\ \E src \in QuerySources, text_only \in BOOLEAN :
           new(src, text_only, None, None, None)
    /\ workspace_new
    /\ ContextMenu_build

QueryNext ==
    \/ \E task \in tasks : parse_completion(task)
    \/ paint
    \/ \E source_index \in 0 .. Len(source) : round_trip(source_index)
    \/ \E source_index \in 0 .. Len(source) : word_range(source_index)
    \/ \E range_start, range_end \in 0 .. Len(source) : range_text(range_start, range_end)
    \/ \E position \in QueryPositions : link_at(position)
    \/ \E markdown \in CodeBlockTexts : strip_fences(markdown)

QuerySpec == QueryInit /\ [][QueryNext]_vars

\* A document constructed, parsed and rendered, and the lookups of the offset
\* of a point of its rendered text and of the indices of its lines.
PositionNext ==
    \/ \E task \in tasks : parse_completion(task)
    \/ paint
    \/ \E position \in QueryPositions : offset_at(position)
    \/ \E n \in 1 .. Len(source), index \in 1 .. Len(source) : translate(n, index)

PositionSpec == QueryInit /\ [][PositionNext]_vars

\* The layout of every properly nested sequence of events.
LeafKinds == { "Text", "Code", "Html", "InlineHtml", "Rule", "SoftBreak", "HardBreak" }
LayoutNext ==
    \/ layout_begin
    \/ \E tag \in BlockTags \cup InlineTags
                 \cup { ItemTag, TableHeadTag, TableRowTag, TableCellTag } :
          layout_start(tag)
    \/ layout_end
    \/ \E kind \in LeafKinds : layout_leaf(kind)
    \/ layout_build

\* An empty document, whose element lays events out.
LayoutInit == new(<<>>, FALSE, None, None, None) /\ workspace_new /\ ContextMenu_build

LayoutSpec == LayoutInit /\ [][LayoutNext]_vars

\* A document whose text is selected with the mouse and copied, before and
\* after the host appends the end of the strong emphasis that the text
\* opens: a**b
UnclosedStrongSource == <<"a", "*", "*", "b">>
ClosingStrong == <<"*", "*">>
DragPositions == [x : 0 .. DragMaxX, y : {0}]

RerenderInit ==
    new(UnclosedStrongSource, FALSE, None, None, None) /\ workspace_new /\ ContextMenu_build

RerenderNext ==
    \/ version < MaxAppends /\ append(ClosingStrong)
    \/ \E task \in tasks : parse_completion(task)
    \/ paint
    \/ \E position \in DragPositions, click_count \in ClickCounts :
          mouse_down(position, click_count)
    \/ \E position \in DragPositions : mouse_move(position)
    \/ mouse_up
    \/ copy

RerenderSpec == RerenderInit /\ [][RerenderNext]_vars

\* The head of selections is moved.
SelectionNext == \E sel \in Selections, head \in Heads : move_head(sel, head)

SelectionSpec == Init /\ [][SelectionNext]_vars

\* Documents with links: a link before a word, two links to one URL, and a
\* word before a link.
TwoLinksSource == <<"[", "l", "]", "(", "u", ")", "[", "m", "]", "(", "u", ")">>
WordLinkSource == <<"b", "[", "l", "]", "(", "u", ")">>
ListenerSources == { LinkSource, TwoLinksSource, WordLinkSource }
\* The handlers the host supplies with Markdown::open_url: none, or one.
UrlHandlers == { None, Some("handler") }

\* A document with links, constructed with or without a handler of the host,
\* that the mouse acts on while text is appended to it.
ListenerInit ==
    /\ \E src \in ListenerSources, handler \in UrlHandlers :
           new(src, FALSE, None, None, handler)
    /\ workspace_new
    /\ ContextMenu_build

ListenerNext ==
    \/ version < MaxAppends /\ \E text \in AppendTexts : append(text)
    \/ \E task \in tasks : parse_completion(task)
    \/ paint
    \/ \E position \in MousePositions, click_count \in ClickCounts :
          mouse_down(position, click_count)
    \/ \E position \in MousePositions : mouse_move(position)
    \/ mouse_up

ListenerSpec == ListenerInit /\ [][ListenerNext]_vars

\* Documents with fenced code blocks: one block that names the language r,
\* one that names none, one of each, and blocks of two languages.
CodeBlock(language, body) == Fenced(<<>>, language, body, <<"\n">>)
LanguageSources ==
    { LinkSource,
      CodeBlock(<<"r">>, <<"x", "\n">>),
      CodeBlock(<<>>, <<"x", "\n">>),
      CodeBlock(<<"q">>, <<"x", "\n">>) \o CodeBlock(<<>>, <<"y", "\n">>),
      CodeBlock(<<"r">>, <<"x", "\n">>) \o CodeBlock(<<"q">>, <<"y", "\n">>) }
\* The host's language registries: none, or one that resolves these names.
LanguageRegistries == {None} \cup { Some(names) : names \in SUBSET {<<"r">>, <<"q">>} }
\* The host's fallback languages: none, one of the registries, an unknown one.
FallbackLanguages == { None, Some(<<"r">>), Some(<<"p">>) }
\* Code blocks the host appends.
AppendedCodeBlocks == { CodeBlock(<<"p">>, <<"z", "\n">>), CodeBlock(<<"r">>, <<>>) }

\* A document with code blocks, constructed with a registry and a fallback
\* language, that code blocks are appended to.
LanguageInit ==
    /\ \E src \in LanguageSources, registry \in LanguageRegistries,
          fallback \in FallbackLanguages : new(src, FALSE, registry, fallback, None)
    /\ workspace_new
    /\ ContextMenu_build

LanguageNext ==
    \/ version < MaxAppends /\ \E text \in AppendedCodeBlocks : append(text)
    \/ \E task \in tasks : parse_completion(task)
    \/ paint

LanguageSpec == LanguageInit /\ [][LanguageNext]_vars

\* A workspace whose host shows and dismisses notifications and toasts, next to
\* an empty document.
NotificationIds ==
    {Named("update"), Composite("LanguageServerPrompt", "rust"),
     WorkspaceErrorNotification, PortalError}
NotificationViews == {"MessageNotification", "ErrorMessagePrompt"}
Toasts == {Toast(id, autohide) : id \in {Named("update"), Named("saved")},
                                 autohide \in BOOLEAN}

WorkspaceInit == new(<<>>, FALSE, None, None, None) /\ workspace_new /\ ContextMenu_build

WorkspaceNext ==
    \/ \E id \in NotificationIds : show_notification(id)
    \/ \E view \in NotificationViews, id \in NotificationIds :
           show_notification_once(view, id)
    \/ show_error
    \/ show_portal_error
    \/ \E id \in NotificationIds : dismiss_notification(id)
    \/ \E toast \in Toasts : show_toast(toast)
    \/ \E timer \in timers : dismiss_toast(timer)
    \/ \E i \in 1 .. Len(notifications) : on_dismiss_event(i)
    \/ clear_all_notifications

WorkspaceSpec == WorkspaceInit /\ [][WorkspaceNext]_vars

\* A context menu that is built of any items and then driven by the keyboard,
\* by dispatched actions and by clicks, next to an empty document.
MenuActions == {"Copy"}
DispatchedActions == {"Copy", "Paste"}

ContextMenuInit == new(<<>>, FALSE, None, None, None) /\ workspace_new /\ ContextMenu_build

ContextMenuNext ==
    \/ header
    \/ separator
    \/ label
    \/ \E a \in {None} \cup {Some(m) : m \in MenuActions} : entry(a)
    \/ \E a \in {None} \cup {Some(m) : m \in MenuActions} : toggleable_entry(a)
    \/ custom_row
    \/ custom_entry
    \/ \E a \in MenuActions : action(a)
    \/ \E a \in MenuActions : disabled_action(a)
    \/ \E a \in MenuActions : menu_link(a)
    \/ build_returns
    \/ select_first
    \/ select_last
    \/ select_next
    \/ select_prev
    \/ \E dispatched \in DispatchedActions : on_action_dispatch(dispatched)
    \/ \E ix \in 0 .. Len(items) - 1 : on_click(ix)

ContextMenuSpec == ContextMenuInit /\ [][ContextMenuNext]_vars

\* ================================================================ claims
\* The kinds of step.
AppendStep == \E text \in AppendTexts : append(text)
ResetStep == \E src \in ResetSources : reset(src)
CompletionStep == \E task \in tasks : parse_completion(task)

\* C1: at most one parse task of the document is in flight at any time.
C1_AtMostOneParseInFlight == Cardinality(tasks) <= 1

\* A parse was requested while one was in flight, and one task is in flight.
C1_Witness == should_reparse /\ pending_parse # None /\ Cardinality(tasks) = 1

\* Text was appended while a parse was in flight: the task in flight holds
\* a snapshot that is no longer the source.
AppendedInFlight ==
    /\ pending_parse # None
    /\ Unwrap(pending_parse).source # source

\* No parse is in flight and the cache holds the parse of the current source.
QuiescentAndCurrent == pending_parse = None /\ parsed_markdown.source = source

\* C2: after text is appended while a parse is in flight, the system reaches a
\* state with no parse in flight whose cache was parsed from the full source.
C2_EventuallyCurrent == AppendedInFlight ~> QuiescentAndCurrent

C2_Witness == AppendedInFlight /\ Len(source) > Len(LinkSource)

\* C3: a completion that finds the dirty flag set schedules exactly one parse,
\* of the source as it is then, and clears the flag.
C3_SingleRetryOfCurrentSource ==
    [][(should_reparse /\ CompletionStep) =>
          /\ Cardinality(tasks') = 1
          /\ \A task \in tasks' : /\ task.source = source'
                                  /\ task \notin tasks
                                  /\ pending_parse' = Some(task)
          /\ ~should_reparse']_vars

\* Two requests were made during one parse, and the one retry is in flight
\* over the stale commit.
C3_Witness ==
    /\ pending_parse # None
    /\ Unwrap(pending_parse).version = 2
    /\ Unwrap(pending_parse).source = source
    /\ committed_version = 0
    /\ parsed_markdown.source = LinkSource
    /\ ~should_reparse

\* C4: the source version of the committed result never decreases from one
\* commit to the next.
C4_NoStaleCommitAfterFresher == [][committed_version' >= committed_version]_vars

\* A second result was committed, of a later version than the first.
C4_Witness == committed_version >= 1 /\ parsed_markdown.source = source

\* The cache holds the document parsed from src.
HoldsParseOf(parsed, src) == parsed # DefaultParsedMarkdown /\ parsed.source = src

\* A re-parse is scheduled by the step: a task is spawned or the flag is set.
ReparseScheduled == tasks' \ tasks # {} \/ should_reparse'

\* C5 as stated: every append or reset that changes the source invalidates the
\* cache (it no longer holds the document parsed from the previous source) and
\* schedules a re-parse.
C5_EveryMutationInvalidatesAndSchedules ==
    [][source' # source =>
          /\ ~HoldsParseOf(parsed_markdown', source)
          /\ ReparseScheduled]_vars

\* C5 as amended: a reset that changes the source empties the cache and an
\* append leaves the cache as it is; a change to a non-empty source schedules a
\* re-parse, and a reset to the empty source leaves no parse in flight.
C5_ResetInvalidatesAppendKeeps ==
    [][source' # source =>
          /\ ResetStep => parsed_markdown' = DefaultParsedMarkdown
          /\ AppendStep => parsed_markdown' = parsed_markdown
          /\ source' # <<>> => pending_parse' # None /\ ReparseScheduled
          /\ source' = <<>> => pending_parse' = None /\ tasks' = {}]_vars

\* A committed document was discarded by a reset, and the parse of the new
\* source is in flight.
C5_Witness ==
    /\ committed_version >= 0
    /\ parsed_markdown = DefaultParsedMarkdown
    /\ pending_parse # None
    /\ Unwrap(pending_parse).source = source

StaleCommitted == parsed_markdown # DefaultParsedMarkdown /\ parsed_markdown.source # source

C7_NoDirtyFlagWithoutSourceChange ==
    [][(pending_parse # None /\ source' = source /\ (AppendStep \/ ResetStep)) =>
          /\ tasks' = tasks
          /\ should_reparse' = should_reparse]_vars

\* C8: a parse request made while the source is empty spawns no task and
\* leaves pending_parse, the dirty flag and the cache as they are: an append
\* changes none of them, and after a reset to the empty source they are as
\* reset set them.
C8_ParseOfEmptySourceIsNoOp ==
    /\ [](\A task \in tasks : task.source # <<>>)
    /\ [][(AppendStep /\ source' = <<>>) =>
             UNCHANGED <<pending_parse, should_reparse, parsed_markdown, tasks>>]_vars
    /\ [][(ResetStep /\ source # <<>> /\ source' = <<>>) =>
             /\ tasks' = {}
             /\ pending_parse' = None
             /\ ~should_reparse'
             /\ parsed_markdown' = DefaultParsedMarkdown]_vars

\* A parse was requested on an empty source.
C8_Witness == source = <<>> /\ version >= 1

\* C9: reset to the current source changes nothing.
C9_ResetToSameSourceChangesNothing ==
    [][reset(source) =>
          UNCHANGED <<source, selection, pressed_link, autoscroll_request,
                      pending_parse, should_reparse, parsed_markdown, tasks>>]_vars

\* A state whose source the host can reset to, with a selection, a pressed
\* link, an autoscroll request, a parse in flight, the dirty flag and a
\* committed document.
C9_Witness ==
    /\ source \in ResetSources
    /\ selection # DefaultSelection
    /\ pressed_link # None
    /\ autoscroll_request # None
    /\ pending_parse # None
    /\ should_reparse
    /\ parsed_markdown # DefaultParsedMarkdown

\* C10: a reset to a different source leaves the default selection and no
\* pressed link.
C10_ResetClearsSelectionAndPressedLink ==
    [][(ResetStep /\ source' # source) =>
          /\ selection' = DefaultSelection
          /\ pressed_link' = None]_vars

\* The kinds of step of the mouse.
MouseDownStep ==
    \E position \in MousePositions, click_count \in ClickCounts :
        mouse_down(position, click_count)
MouseMoveStep == \E position \in MousePositions : mouse_move(position)

\* C11: an append, the completion of a parse (commit and retry) and a render
\* pass leave the selection and the pressed link as they are.
C11_SourcePreservingStepsKeepInteractionState ==
    [][(AppendStep \/ CompletionStep \/ paint) =>
          UNCHANGED <<selection, pressed_link>>]_vars

\* A selection and a pressed link are held by a document that text was
\* appended to, whose re-parse is committed and rendered.
C11_Witness ==
    /\ selection.start < selection.end
    /\ pressed_link # None
    /\ Len(source) > Len(LinkSource)
    /\ committed_version >= 1
    /\ parsed_markdown.source = source
    /\ rendered_text = Some(request_layout(parsed_markdown))

\* C12: in every reachable state the selection starts no later than it ends.
C12_SelectionStartsBeforeEnd == selection.start <= selection.end

\* A drag went backwards over the tail and has ended: the selection is
\* reversed and not empty.
C12_Witness ==
    /\ selection.reversed
    /\ ~selection.pending
    /\ selection.start < selection.end

\* C13: pointer-down, pointer-move, pointer-up and the Copy action leave the
\* source, the cache, the parse in flight and the dirty flag as they are.
C13_InteractionKeepsParseState ==
    [][(MouseDownStep \/ MouseMoveStep \/ mouse_up \/ copy) =>
          UNCHANGED <<source, parsed_markdown, pending_parse, should_reparse,
                      tasks>>]_vars

\* While the re-parse of appended text is in flight over a committed
\* document, a selection is held and was copied.
C13_Witness ==
    /\ pending_parse # None
    /\ parsed_markdown # DefaultParsedMarkdown
    /\ parsed_markdown.source # source
    /\ selection.start < selection.end
    /\ clipboard # None

\* The rendered text of the document that Markdown::new parses from src.
Rendered(src) ==
    request_layout(ParseResult([source |-> src, parse_text_only |-> FALSE, version |-> 0]))

\* The number of characters of the fragment that mapping n of the line
\* starts: up to the next mapping, or to the end of the text.
FragmentLen(line, n) ==
    (IF n < Len(line.source_mappings)
     THEN line.source_mappings[n + 1].rendered_index
     ELSE Len(line.text)) - line.source_mappings[n].rendered_index

\* The source offset lands inside the rendered text of the line: a character
\* of one of its fragments stands at it.
InRenderedText(line, source_index) ==
    \E n \in 1 .. Len(line.source_mappings) :
        /\ line.source_mappings[n].source_index <= source_index
        /\ source_index < line.source_mappings[n].source_index + FragmentLen(line, n)

\* The round trip was made of a source offset inside rendered text.
RoundTripInsideText ==
    /\ query # None
    /\ Unwrap(query).op = "round_trip"
    /\ \E n \in 1 .. Len(Unwrap(query).text.lines) :
          InRenderedText(Unwrap(query).text.lines[n], Unwrap(query).source_index)

\* C14: for a source offset that lands inside rendered text,
\* position_for_source_index gives a point, and source_index_for_position of
\* that point gives the same offset back.
C14_OffsetRoundTrip ==
    RoundTripInsideText =>
        /\ Unwrap(query).result # None
        /\ Unwrap(Unwrap(query).result) = Ok(Unwrap(query).source_index)

\* The round trip of the offset of the link text, which follows the gaps of
\* the strong emphasis and of the opening bracket.
C14_Witness ==
    /\ RoundTripInsideText
    /\ Unwrap(query).text = Rendered(BoldLinkSource)
    /\ Unwrap(query).source_index = 7
    /\ Unwrap(query).position = Some([x |-> 2, y |-> 0])

\* The word range was looked up.
WordRangeLookedUp == query # None /\ Unwrap(query).op = "surrounding_word_range"

\* The range lies within the source range of one rendered line and holds the
\* offset, its end included.
WithinOneLineAround(text, range, source_index) ==
    \E n \in 1 .. Len(text.lines) :
        /\ text.lines[n].source_mappings[1].source_index <= range[1]
        /\ range[1] <= source_index
        /\ source_index <= range[2]
        /\ range[2] <= text.lines[n].source_end

\* C15 as stated: for every offset of the source, surrounding_word_range
\* returns a range within one rendered line that holds the offset, or the
\* empty range at the offset when no line is left to expand over.
C15_WordRangeAroundEveryOffset ==
    WordRangeLookedUp =>
        LET text == Unwrap(query).text
            source_index == Unwrap(query).source_index
        IN  IF LineFor(text, source_index) = 0
            THEN Unwrap(query).result = <<source_index, source_index>>
            ELSE WithinOneLineAround(text, Unwrap(query).result, source_index)

\* A point resolves to the offset: it lands inside the rendered text of a
\* line, or it is the end of a line.
Resolvable(text, source_index) ==
    \E n \in 1 .. Len(text.lines) :
        \/ InRenderedText(text.lines[n], source_index)
        \/ source_index = text.lines[n].source_end

\* C15 as amended: for every offset that a point resolves to,
\* surrounding_word_range returns a range within the one rendered line that
\* holds the offset, and the range holds the offset; for an offset past the
\* last line it returns the empty range at the offset. (An offset in a gap of
\* the rendered text gets a range that need not hold it, or a panic.)
C15_WordRangeAroundResolvedOffset ==
    WordRangeLookedUp =>
        LET text == Unwrap(query).text
            source_index == Unwrap(query).source_index
        IN  /\ LineFor(text, source_index) = 0 =>
                  Unwrap(query).result = <<source_index, source_index>>
            /\ Resolvable(text, source_index) =>
                  WithinOneLineAround(text, Unwrap(query).result, source_index)

\* The word "b" of the second paragraph was looked up at its first offset.
C15_Witness ==
    /\ WordRangeLookedUp
    /\ Unwrap(query).text = Rendered(TwoParagraphSource)
    /\ Unwrap(query).source_index = 3
    /\ Unwrap(query).result = <<3, 4>>

\* The range of the line of the source that holds the offset: from the line
\* break before it to the line break at or after it.
SourceLineRange(src, source_index) ==
    LET before == { i \in 0 .. source_index - 1 : src[i + 1] = "\n" }
    IN  <<IF before = {} THEN 0
          ELSE 1 + CHOOSE i \in before : \A j \in before : j <= i,
          FindFrom(src, "\n", source_index)>>

\* The document is the paragraph of two lines, parsed and rendered.
TwoLineRendered ==
    /\ source = TwoLineSource
    /\ rendered_text = Some(Rendered(TwoLineSource))

\* C16: a triple-click inside a paragraph of two lines joined by a soft break
\* sets the selection to the source range of the clicked line, not to the
\* range of the whole paragraph.
C16_TripleClickSelectsClickedLine ==
    [][\A position \in MousePositions :
          (/\ TwoLineRendered
           /\ is_hovered(Unwrap(rendered_text), position)
           /\ mouse_down(position, 3)) =>
              <<selection'.start, selection'.end>> =
                  SourceLineRange(source,
                      source_index_for_position(Unwrap(rendered_text), position).ix)]_vars

\* text_for_range was looked up in a document.
RangeTextLookedUp == query # None /\ Unwrap(query).op = "text_for_range"

\* The source holds no markup: plain paragraphs.
IsPlain(src) == \A i \in 1 .. Len(src) : src[i] \notin {"*", "[", "]", "(", ")"}

\* The lookup was made of the rendered text of the document as it is.
OfCurrentDocument ==
    Unwrap(query).text = request_layout(
        ParseResult([source |-> source, parse_text_only |-> options.parse_links_only,
                     version |-> 0]))

\* C17 as stated: in a document of plain paragraphs, text_for_range of every
\* range with start <= end inside the document is the slice of the source.
C17_RangeTextIsSourceSlice ==
    (RangeTextLookedUp /\ OfCurrentDocument /\ IsPlain(source)) =>
        LET range == Unwrap(query).range
        IN  Unwrap(query).result = Returned(Slice(source, range[1], range[2]))

\* C17 as amended: in a document of plain paragraphs, text_for_range of a
\* range that holds no line break is the slice of the source; of a range that
\* holds a line break it is not, once the document is parsed as markdown: a
\* soft break comes out as a space and the lines of two paragraphs are joined
\* by one line break.
C17_RangeTextIsSliceWithinLine ==
    (RangeTextLookedUp /\ OfCurrentDocument /\ IsPlain(source)) =>
        LET range == Unwrap(query).range
            slice == Slice(source, range[1], range[2])
            breaks == \E i \in 1 .. Len(slice) : slice[i] = "\n"
        IN  /\ ~breaks => Unwrap(query).result = Returned(slice)
            /\ (breaks /\ ~options.parse_links_only) =>
                  /\ ~Unwrap(query).result.panic
                  /\ Unwrap(query).result.value # slice
            /\ (source = TwoLineSource /\ ~options.parse_links_only /\ range = <<0, 3>>) =>
                  Unwrap(query).result = Returned(<<"a", " ", "b">>)
            /\ (source = TwoParagraphSource /\ ~options.parse_links_only
                    /\ range = <<0, 6>>) =>
                  Unwrap(query).result = Returned(<<"a", "\n", "b", " ", "c">>)

\* The words "b c" of the second of two plain paragraphs were looked up.
C17_Witness ==
    /\ RangeTextLookedUp
    /\ OfCurrentDocument
    /\ source = TwoParagraphSource
    /\ ~options.parse_links_only
    /\ Unwrap(query).range = <<3, 6>>
    /\ Unwrap(query).result = Returned(<<"b", " ", "c">>)

\* link_for_position was looked up.
LinkLookedUp == query # None /\ Unwrap(query).op = "link_for_position"

\* The links of the table whose source range holds the offset, by position
\* in the table.
LinksAround(text, source_index) ==
    { n \in 1 .. Len(text.links) :
        /\ text.links[n].source_range[1] <= source_index
        /\ source_index < text.links[n].source_range[2] }

\* C18: link_for_position of a point is the first link of the table whose
\* source range holds the offset the point resolves to, and None when the
\* point resolves to no offset or no link holds it; in "**b** [l](u) t" a
\* point inside the link text "l" gives the link and a point inside the bold
\* text "b" gives None.
C18_LinkForPosition ==
    LinkLookedUp =>
        LET text == Unwrap(query).text
            found == source_index_for_position(text, Unwrap(query).position)
            around == LinksAround(text, found.ix)
        IN  /\ IF found.ok /\ around # {}
               THEN Unwrap(query).result =
                        Some(text.links[CHOOSE n \in around : \A m \in around : n <= m])
               ELSE Unwrap(query).result = None
            /\ (text = Rendered(BoldLinkSource) /\ Unwrap(query).position = [x |-> 2, y |-> 0])
                  => Unwrap(query).result =
                         Some([source_range |-> <<6, 12>>, destination_url |-> <<"u">>])
            /\ (text = Rendered(BoldLinkSource) /\ Unwrap(query).position = [x |-> 0, y |-> 0])
                  => Unwrap(query).result = None

\* The point inside the link text of "**b** [l](u) t" was looked up and gave
\* the one link of the document.
C18_Witness ==
    /\ LinkLookedUp
    /\ Unwrap(query).text = Rendered(BoldLinkSource)
    /\ Len(Unwrap(query).text.links) = 1
    /\ Unwrap(query).position = [x |-> 2, y |-> 0]
    /\ Unwrap(query).result # None

\* without_fences was applied.
FencesStripped == query # None /\ Unwrap(query).op = "without_fences"

\* C19: without_fences gives the body of a fenced block: it strips the text
\* up to and including the first line break after the first fence, and the
\* text from the last fence of the rest on, and keeps the last line break of
\* the body; a text that holds no fence it gives back as it is.
C19_WithoutFences ==
    FencesStripped =>
        LET markdown == Unwrap(query).markdown
            result == Unwrap(query).result
        IN  /\ \A prefix \in FencePrefixes, language \in FenceLanguages,
                  body \in FenceBodies, suffix \in FenceSuffixes :
                  markdown = Fenced(prefix, language, body, suffix) => result = body
            /\ markdown \in UnfencedTexts => result = markdown
            /\ markdown = Backticks \o <<"r", "\n", "x">> => result = <<"x">>
            /\ markdown = Backticks => result = <<>>

\* A fenced block with text before the fence, a language name, a body of two
\* lines and text after the closing fence was stripped to its body.
C19_Witness ==
    /\ FencesStripped
    /\ Unwrap(query).markdown =
           Fenced(<<" ">>, <<"r">>, <<"x", "\n", "y", "\n">>, <<" ">>)
    /\ Unwrap(query).result = <<"x", "\n", "y", "\n">>

\* C20: the Copy action changes nothing when the selection ends at or before
\* its start; otherwise it writes text_for_range of the selection to the
\* clipboard and changes nothing of the document.
C20_CopyWritesSelectionOrNothing ==
    [][copy =>
          IF selection.end <= selection.start
          THEN UNCHANGED vars
          ELSE /\ clipboard' =
                      Some(text_for_range(Unwrap(rendered_text),
                                          selection.start, selection.end).value)
               /\ UNCHANGED document_state]_vars

\* The selection over the word, the gap of the link syntax and the link text
\* of "b [l](u)" was copied: the clipboard holds the rendered "b l".
C20_Witness ==
    /\ source = LinkEndSource
    /\ selection.start = 0
    /\ selection.end = 4
    /\ clipboard = Some(<<"b", " ", "l">>)

\* C21: every completion of a parse commits the document of the task, with
\* a language map that holds no other names than those of its fences, maps
\* every name whose lookup succeeds to its language (the empty name to the
\* fallback language) and holds no name whose lookup fails, has nothing to
\* look up (the empty name without a fallback) or has no registry.
C21_LanguageResolutionIsPerName ==
    [][\A task \in tasks : parse_completion(task) =>
          /\ parsed_markdown'.source = task.source
          /\ parsed_markdown'.events = parse_markdown(task.source)
          /\ DOMAIN parsed_markdown'.languages \subseteq language_names(task.source)
          /\ \A name \in language_names(task.source) :
                LET wanted == IF name = <<>> THEN fallback_code_block_language
                              ELSE Some(name)
                    succeeds == /\ language_registry # None
                                /\ wanted # None
                                /\ Unwrap(wanted) \in Unwrap(language_registry)
                IN  IF succeeds
                    THEN /\ name \in DOMAIN parsed_markdown'.languages
                         /\ parsed_markdown'.languages[name] = Unwrap(wanted)
                    ELSE name \notin DOMAIN parsed_markdown'.languages]_vars

\* The committed document has a fence of a language that the registry does
\* not resolve and a fence that names none: the map holds the fallback
\* language under the empty name and nothing else.
C21_Witness ==
    /\ language_names(parsed_markdown.source) = {<<"q">>, <<>>}
    /\ language_registry = Some({<<"r">>})
    /\ fallback_code_block_language = Some(<<"r">>)
    /\ DOMAIN parsed_markdown.languages = {<<>>}
    /\ parsed_markdown.languages[<<>>] = <<"r">>
    /\ rendered_text = Some(request_layout(parsed_markdown))

\* The steps of the mouse listeners, by what the mouse is pressed on.
PressedAt(position) == link_for_position(Unwrap(rendered_text), position)
Inside(position) == is_hovered(Unwrap(rendered_text), position)
OffsetAt(position) == source_index_for_position(Unwrap(rendered_text), position)

\* C22: a pointer-down inside the element and not on a link sets the
\* selection to the range at the offset of the point - the surrounding word
\* on a double-click, the surrounding line on a triple-click, offset..offset
\* otherwise, a range that holds the offset - not reversed and pending,
\* whatever the selection was.
C22_PointerDownStartsSelection ==
    [][\A position \in MousePositions, click_count \in ClickCounts :
          (/\ mouse_down(position, click_count)
           /\ Inside(position)
           /\ PressedAt(position) = None) =>
              LET text == Unwrap(rendered_text)
                  offset == OffsetAt(position).ix
                  range == CASE click_count = 2 -> surrounding_word_range(text, offset)
                             [] click_count = 3 -> surrounding_line_range(text, offset)
                             [] OTHER -> <<offset, offset>>
              IN  /\ selection' = [start |-> range[1], end |-> range[2],
                                    reversed |-> FALSE, pending |-> TRUE]
                  /\ 0 <= range[1]
                  /\ range[1] <= offset
                  /\ offset <= range[2]]_vars

\* A double-click on the "b" of "b[l](u)" selected the word "bl" that it
\* renders to, over a pressed link.
C22_Witness ==
    /\ source = WordLinkSource
    /\ selection = [start |-> 0, end |-> 3, reversed |-> FALSE, pending |-> TRUE]
    /\ pressed_link # None
    /\ autoscroll_request = None

\* C23: in no reachable state is a drag in progress while a link is pressed.
C23_DraggingExcludesLinkArmed == ~(selection.pending /\ pressed_link # None)

\* C24: a pointer-down on a link sets pressed_link to that link, whose source
\* range holds the offset of the point, and leaves the selection as it is.
C24_PointerDownOnLinkArmsIt ==
    [][\A position \in MousePositions, click_count \in ClickCounts :
          (/\ mouse_down(position, click_count)
           /\ Inside(position)
           /\ PressedAt(position) # None) =>
              /\ pressed_link' = PressedAt(position)
              /\ Contains(Unwrap(pressed_link').source_range, OffsetAt(position).ix)
              /\ selection' = selection]_vars

\* A link is pressed while the selection that a drag left is held.
C24_Witness ==
    /\ pressed_link # None
    /\ ~selection.pending
    /\ selection.start < selection.end

\* Whether the point resolves to the pressed link: the first link whose
\* source range holds the offset of the point has the source range and the
\* URL of the pressed link.
ReleasedOnPressedLink(position) ==
    LET text == Unwrap(rendered_text)
        found == OffsetAt(position)
        around == LinksAround(text, found.ix)
    IN  /\ pressed_link # None
        /\ found.ok
        /\ around # {}
        /\ LET link == text.links[CHOOSE n \in around : \A m \in around : n <= m]
           IN  /\ link.source_range = Unwrap(pressed_link).source_range
               /\ link.destination_url = Unwrap(pressed_link).destination_url

\* C25: a pointer-up opens the pressed link exactly when the release point
\* resolves to that link; it then makes one call, of the handler of the host
\* when there is one and of cx.open_url otherwise; and after every pointer-up
\* no link is pressed.
C25_PointerUpOpensPressedLink ==
    /\ [][mouse_up => pressed_link' = None]_vars
    /\ [](rendered_text # None =>
            \A position \in MousePositions :
               LET calls == mouse_up_calls(Unwrap(rendered_text), selection.pending,
                                           pressed_link, open_url, position)
                   url == Unwrap(pressed_link).destination_url
               IN  calls \ {Notify} =
                      IF ReleasedOnPressedLink(position)
                      THEN IF open_url # None THEN {Handler(url)} ELSE {OpenUrl(url)}
                      ELSE {})

\* The first of two links to one URL is pressed in a document whose host
\* supplied a handler: a release on it opens it, a release on the other link
\* does not.
C25_Witness ==
    /\ source = TwoLinksSource
    /\ open_url # None
    /\ rendered_text = Some(request_layout(parsed_markdown))
    /\ pressed_link = Some([source_range |-> <<0, 6>>, destination_url |-> <<"u">>])
    /\ ReleasedOnPressedLink([x |-> 0, y |-> 0])
    /\ ~ReleasedOnPressedLink([x |-> 1, y |-> 0])

\* C26: pending becomes true only in a pointer-down that starts a selection,
\* and a pointer-up while it is true sets it to false and leaves the start,
\* the end and the direction of the selection as they are.
C26_PendingOnlyWhileDragging ==
    /\ [][(~selection.pending /\ selection'.pending) =>
             \E position \in MousePositions, click_count \in ClickCounts :
                /\ mouse_down(position, click_count)
                /\ Inside(position)
                /\ PressedAt(position) = None]_vars
    /\ [][(mouse_up /\ selection.pending) =>
             selection' = [selection EXCEPT !.pending = FALSE]]_vars

\* A drag that extended the selection has ended, and no frame was painted
\* since.
C26_Witness ==
    /\ ~selection.pending
    /\ selection.start < selection.end
    /\ autoscroll_request # None

\* The head of a selection: the end that a drag moves.
HeadOf(sel) == IF sel.reversed THEN sel.start ELSE sel.end

\* Whether the offset is a boundary of a rendered line: the source offset of
\* the start or of the end of its text, or its source end.
IsLineBoundary(text, offset) ==
    \/ text.lines = <<>> /\ offset = 0
    \/ \E n \in 1 .. Len(text.lines) :
          offset \in { source_index_for_rendered_index(text.lines[n], 0),
                       source_index_for_rendered_index(text.lines[n],
                                                       Len(text.lines[n].text)),
                       text.lines[n].source_end }

\* C27: a pointer-move while a drag is in progress moves the head of the
\* selection with set_head to the offset of the point - a boundary of a line
\* when the point is on no character - and requests an autoscroll to that
\* offset.
C27_DragMovesHeadAndAutoscrolls ==
    [][\A position \in MousePositions :
          (mouse_move(position) /\ selection.pending) =>
              LET found == OffsetAt(position)
              IN  /\ selection' = set_head(selection, found.ix)
                  /\ HeadOf(selection') = found.ix
                  /\ selection'.pending
                  /\ autoscroll_request' = Some(found.ix)
                  /\ ~found.ok => IsLineBoundary(Unwrap(rendered_text), found.ix)]_vars

\* A drag moved into the margin below the line: the head and the autoscroll
\* request are at the source end of the line.
C27_Witness ==
    /\ selection.pending
    /\ rendered_text # None
    /\ Unwrap(rendered_text).lines # <<>>
    /\ ~OffsetAt([x |-> 0, y |-> 1]).ok
    /\ autoscroll_request = Some(OffsetAt([x |-> 0, y |-> 1]).ix)
    /\ selection.start < selection.end
    /\ selection.end = Unwrap(autoscroll_request)

\* The head of a selection was moved.
HeadMoved == query # None /\ Unwrap(query).op = "set_head"

\* C28: set_head(h) of a selection that starts no later than it ends keeps
\* the tail, makes the selection the range between the tail and h, and leaves
\* it reversed exactly when h is before the tail.
C28_SetHeadKeepsTail ==
    HeadMoved =>
        LET before == Unwrap(query).selection
            h == Unwrap(query).head
            after == Unwrap(query).result
        IN  /\ tail(after) = tail(before)
            /\ after.start = Min(tail(before), h)
            /\ after.end = IF tail(before) <= h THEN h ELSE tail(before)
            /\ after.reversed <=> h < tail(before)
            /\ after.pending = before.pending

\* The head of the selection 1..3 was moved before its tail, to 0: the
\* selection is 0..1, reversed.
C28_Witness ==
    /\ HeadMoved
    /\ Unwrap(query).selection =
          [start |-> 1, end |-> 3, reversed |-> FALSE, pending |-> TRUE]
    /\ Unwrap(query).head = 0
    /\ Unwrap(query).result =
          [start |-> 0, end |-> 1, reversed |-> TRUE, pending |-> TRUE]

\* Whether the point is inside the element and resolves to an offset that a
\* link holds.
HoversLink(position) ==
    /\ Inside(position)
    /\ OffsetAt(position).ok
    /\ LinksAround(Unwrap(rendered_text), OffsetAt(position).ix) # {}

\* C29: a pointer-move while no drag is in progress changes nothing, and it
\* calls cx.notify() exactly when the point hovers a link and the listener
\* was painted hovering none, or the reverse - for every hover state that
\* paint can have recorded, from the position of the mouse and the selection
\* at that time.
C29_IdlePointerMoveRefreshesOnHoverChange ==
    /\ [][\A position \in MousePositions :
             (mouse_move(position) /\ ~selection.pending) => UNCHANGED vars]_vars
    /\ []((rendered_text # None /\ ~selection.pending) =>
            \A position \in MousePositions, mouse_position \in MousePositions,
               pending_at_paint \in BOOLEAN :
               LET text == Unwrap(rendered_text)
                   was_hovering_link ==
                       is_hovering_link(text, pending_at_paint, mouse_position)
                   calls == mouse_move_calls(text, selection.pending,
                                             was_hovering_link, position)
               IN  /\ calls \subseteq {Notify}
                   /\ Notify \in calls <=> (HoversLink(position) # was_hovering_link))

\* A link is pressed and no drag is in progress over a document that text
\* was appended to, rendered again.
C29_Witness ==
    /\ pressed_link # None
    /\ selection = DefaultSelection
    /\ committed_version = 1
    /\ rendered_text = Some(request_layout(parsed_markdown))
    /\ HoversLink([x |-> 0, y |-> 0])
    /\ ~HoversLink([x |-> 1, y |-> 0])

\* C30: a pointer-down outside the element sets the selection to the default
\* and pressed_link to None, whatever they were.
C30_PointerDownOutsideClears ==
    [][\A position \in MousePositions, click_count \in ClickCounts :
          (mouse_down(position, click_count) /\ ~Inside(position)) =>
              /\ selection' = DefaultSelection
              /\ pressed_link' = None]_vars

\* A drag backwards is in progress while a link is pressed: the state a click
\* outside the element clears.
C30_Witness ==
    /\ selection.pending
    /\ selection.reversed
    /\ selection.start < selection.end
    /\ pressed_link # None

\* The offset of a point was looked up.
OffsetLookedUp == query # None /\ Unwrap(query).op = "source_index_for_position"

\* The point is on a glyph of rendered line n (from 1).
OnGlyph(text, n, position) ==
    /\ LineTop(n - 1) <= position.y
    /\ position.y <= LineBottom(n - 1)
    /\ 0 <= position.x
    /\ position.x < Len(text.lines[n].text)

\* The point is below rendered line n (from 1) and above the next line.
InGapBelow(text, n, position) ==
    /\ n < Len(text.lines)
    /\ LineBottom(n - 1) < position.y
    /\ position.y < LineTop(n)

\* The point is below the last line, or there is no line.
BelowLastLine(text, position) ==
    \/ text.lines = <<>>
    \/ LineBottom(Len(text.lines) - 1) < position.y

\* C31: source_index_for_position returns Ok only for a point on a glyph of
\* a line; for a point between the bottom of a line and the top of the next
\* it returns Err of the source end of the upper line; for a point below the
\* last line it returns Err of the source end of the last line, and Err(0)
\* when there is no line.
C31_OffsetOfPoint ==
    OffsetLookedUp =>
        LET text == Unwrap(query).text
            position == Unwrap(query).position
            result == Unwrap(query).result
        IN  /\ result.ok => \E n \in 1 .. Len(text.lines) : OnGlyph(text, n, position)
            /\ \A n \in 1 .. Len(text.lines) :
                  InGapBelow(text, n, position) => result = Err(text.lines[n].source_end)
            /\ BelowLastLine(text, position) =>
                  result = Err(IF text.lines = <<>> THEN 0
                               ELSE text.lines[Len(text.lines)].source_end)

\* A point between the two paragraphs of "a\n\nb c" was looked up: the
\* result is the source end of the first.
C31_Witness ==
    /\ OffsetLookedUp
    /\ Unwrap(query).text = Rendered(TwoParagraphSource)
    /\ Len(Unwrap(query).text.lines) = 2
    /\ Unwrap(query).position = [x |-> 0, y |-> 1]
    /\ Unwrap(query).result = Err(Unwrap(query).text.lines[1].source_end)

\* The indices of a line were translated.
Translated == query # None /\ Unwrap(query).op = "translate"

\* The mappings of the line are sorted by both fields.
SortedMappings(line) ==
    \A n \in 1 .. Len(line.source_mappings) - 1 :
        /\ line.source_mappings[n].rendered_index
              <= line.source_mappings[n + 1].rendered_index
        /\ line.source_mappings[n].source_index
              <= line.source_mappings[n + 1].source_index

\* The mappings of the line whose source index, or rendered index, is at or
\* before the index.
SourcePreceding(line, index) ==
    { n \in 1 .. Len(line.source_mappings) : line.source_mappings[n].source_index <= index }
RenderedPreceding(line, index) ==
    { n \in 1 .. Len(line.source_mappings) : line.source_mappings[n].rendered_index <= index }

\* The last of a non-empty set of mappings of the line.
LastOf(line, preceding) ==
    line.source_mappings[CHOOSE n \in preceding : \A m \in preceding : m <= n]

\* Both translations extrapolate from the closest preceding mapping.
ClosestPrecedingMapping ==
    LET line == Unwrap(query).line
        index == Unwrap(query).index
        by_source == SourcePreceding(line, index)
        by_rendered == RenderedPreceding(line, index)
    IN  /\ by_source # {} =>
              Unwrap(query).rendered =
                  LastOf(line, by_source).rendered_index
                      + (index - LastOf(line, by_source).source_index)
        /\ by_rendered # {} =>
              Unwrap(query).source =
                  LastOf(line, by_rendered).source_index
                      + (index - LastOf(line, by_rendered).rendered_index)

\* C32 as stated: on a line whose mappings are sorted by both fields, both
\* translations extrapolate from the closest preceding mapping and neither
\* decreases from an index to the next.
C32_TranslationsAreMonotonic ==
    (Translated /\ SortedMappings(Unwrap(query).line)) =>
        /\ ClosestPrecedingMapping
        /\ Unwrap(query).rendered_before # Panic =>
              Unwrap(query).rendered_before <= Unwrap(query).rendered
        /\ Unwrap(query).source_before # Panic =>
              Unwrap(query).source_before <= Unwrap(query).source

\* C32, amended: on a line whose mappings are sorted by both fields, both
\* translations extrapolate from the closest preceding mapping;
\* source_index_for_rendered_index never decreases from a rendered index to
\* the next, and rendered_index_for_source_index never decreases between two
\* source offsets that both land inside the rendered text of the line.
C32_ClosestPrecedingMapping ==
    (Translated /\ SortedMappings(Unwrap(query).line)) =>
        /\ ClosestPrecedingMapping
        /\ Unwrap(query).source_before # Panic =>
              Unwrap(query).source_before <= Unwrap(query).source
        /\ (/\ InRenderedText(Unwrap(query).line, Unwrap(query).index - 1)
            /\ InRenderedText(Unwrap(query).line, Unwrap(query).index)) =>
              Unwrap(query).rendered_before <= Unwrap(query).rendered

\* The offset 6 of "[l](u) b", that of the space after the link, translates
\* to the rendered index 1, while the offset 5 before it, inside the syntax
\* of the link, translates to 4.
C32_Witness ==
    /\ Translated
    /\ Unwrap(query).line = Rendered(LinkSource).lines[1]
    /\ Unwrap(query).index = 6
    /\ Unwrap(query).rendered = 1
    /\ Unwrap(query).rendered_before = 4
    /\ Unwrap(query).source = 11
    /\ Unwrap(query).source_before = 10

\* The numbers of pops that the end of a tag applies to the stacks of a
\* builder: what the start of the tag pushed.
PopsOf(tag, b) ==
    LET name == tag.name
    IN  [div_stack |->
             CASE name \in {"CodeBlock", "Item", "Table"} -> 2
               [] name \in {"Paragraph", "Heading", "BlockQuote", "HtmlBlock", "List",
                            "TableHead", "TableRow", "TableCell"} -> 1
               [] OTHER -> 0,
         text_style_stack |->
             CASE name \in {"Heading", "BlockQuote", "Emphasis", "Strong",
                            "Strikethrough", "TableHead"} -> 1
               [] name = "Link" /\ b.code_block_stack = <<>> -> 1
               [] OTHER -> 0,
         code_block_stack |-> IF name = "CodeBlock" THEN 1 ELSE 0,
         list_stack |-> IF name = "List" THEN 1 ELSE 0]

\* The two stacks are equal but for the bullet indices that the items of a
\* list advance.
SameStacks(after, before) ==
    /\ after.div_stack = before.div_stack
    /\ after.text_style_stack = before.text_style_stack
    /\ after.code_block_stack = before.code_block_stack
    /\ Len(after.list_stack) = Len(before.list_stack)

\* The iteration on the end of a tag pops from stacks that hold what it pops,
\* the container stack keeping its root, and leaves the stacks as they were
\* before the start of the tag.
EndPopsWhatStartPushed ==
    layout_end =>
        LET layout == Unwrap(query)
            opened == layout.open[Len(layout.open)]
            pops == PopsOf(opened.tag, layout.builder)
        IN  /\ Len(layout.builder.div_stack) > pops.div_stack
            /\ Len(layout.builder.text_style_stack) >= pops.text_style_stack
            /\ Len(layout.builder.code_block_stack) >= pops.code_block_stack
            /\ Len(layout.builder.list_stack) >= pops.list_stack
            /\ Len(layout.builder.div_stack) =
                  Len(opened.stacks.div_stack) + pops.div_stack
            /\ Len(layout.builder.text_style_stack) =
                  Len(opened.stacks.text_style_stack) + pops.text_style_stack
            /\ SameStacks(Stacks(Unwrap(query').builder), opened.stacks)

\* The start of a tag that the element does not support, and of a link
\* inside a code block, changes no stack and records no link.
UnsupportedStartPushesNothing ==
    \A tag \in { ImageTag, FootnoteDefinitionTag, MetadataBlockTag, LinkTag(<<"u">>) } :
        (/\ layout_start(tag)
         /\ tag.name = "Link" => Unwrap(query).builder.code_block_stack # <<>>) =>
            /\ Stacks(Unwrap(query').builder) = Stacks(Unwrap(query).builder)
            /\ Unwrap(query').builder.rendered_links = Unwrap(query).builder.rendered_links

\* An event that is no tag leaves the stacks as they are.
LeafKeepsStacks ==
    \A kind \in LeafKinds :
        layout_leaf(kind) =>
            Stacks(Unwrap(query').builder) = Stacks(Unwrap(query).builder)

\* C33: over every properly nested sequence of events, the end of a tag pops
\* from the container, text-style, code-block and list stacks what its start
\* pushed, never from an empty stack; the tags that the element does not
\* support and a link inside a code block push and pop nothing; and when
\* every tag is closed, as it is when build() runs, the container stack holds
\* the root element only and the other stacks are empty.
C33_StackDiscipline ==
    /\ [][EndPopsWhatStartPushed /\ UnsupportedStartPushesNothing /\ LeafKeepsStacks]_vars
    /\ []((query # None /\ Unwrap(query).op = "request_layout"
              /\ Unwrap(query).open = <<>>) =>
             Stacks(Unwrap(query).builder) = Stacks(NewBuilder))

\* A code block that holds a link around its text was laid out and built:
\* one line, no link.
C33_Witness ==
    /\ query # None
    /\ Unwrap(query).op = "request_layout"
    /\ Unwrap(query).built
    /\ Len(Unwrap(query).events) = 5
    /\ Unwrap(query).events[1].tag = CodeBlockTag(<<>>)
    /\ Unwrap(query).events[2].tag = LinkTag(<<"u">>)
    /\ Unwrap(query).events[3].kind = "Text"
    /\ Unwrap(query).builder.rendered_links = <<>>
    /\ Len(Unwrap(query).builder.rendered_lines) = 1

\* C34: whenever no parse is in flight, the cache holds the parse of the
\* current source: the source snapshot of parsed_markdown is the source.
C34_QuiescentCacheIsCurrent ==
    pending_parse = None => parsed_markdown.source = source

\* Text was appended while the first parse was in flight, and the parse that
\* the dirty flag asked for has committed: no parse is in flight and the
\* cache holds the longer source.
C34_Witness ==
    /\ pending_parse = None
    /\ version = 1
    /\ committed_version = 1
    /\ Len(source) > Len(LinkSource)
    /\ parsed_markdown.source = source
    /\ parsed_markdown.events # <<>>

\* C35: the dirty flag is set only while a parse is in flight.
C35_DirtyFlagHasParseToHonourIt ==
    should_reparse => pending_parse # None

\* The dirty flag is set, by an append made while the parse of the source
\* that a reset gave was in flight.
C35_Witness ==
    /\ should_reparse
    /\ pending_parse # None
    /\ Unwrap(pending_parse).version = 1
    /\ version = 2
    /\ Unwrap(pending_parse).source # source

\* The rendered texts that a lookup of the interactive layer can be made on:
\* the one the listeners of the last frame hold, and the one the next frame
\* lays out.
LookupTexts ==
    (IF rendered_text = None THEN {} ELSE { Unwrap(rendered_text) })
        \cup { request_layout(parsed_markdown) }

\* The calls of rendered_index_for_source_index that the interactive layer
\* can make in this state: by a double-click at a point (the offset of the
\* point, on the text the listener holds), by the painting of the selection,
\* by the autoscroll, and by Copy and the pointer-up (the offsets of the
\* selection and of the autoscroll request, on either text).
InteractiveCalls ==
    (IF rendered_text = None THEN {}
     ELSE UNION { surrounding_word_range_calls(Unwrap(rendered_text), OffsetAt(position).ix) :
                    position \in MousePositions })
    \cup UNION { position_for_source_index_calls(text, selection.start)
                   \cup position_for_source_index_calls(text, selection.end)
                   \cup text_for_range_calls(text, selection.start, selection.end)
                   \cup (IF autoscroll_request = None THEN {}
                         ELSE position_for_source_index_calls(text,
                                                              Unwrap(autoscroll_request))) :
                 text \in LookupTexts }

\* C36: every call of rendered_index_for_source_index that the interactive
\* layer can make passes an offset at or after the source index of the first
\* mapping of the line, so the binary search never steps back from the
\* insertion point 0.
C36_NoLookupBeforeFirstMapping ==
    \A call \in InteractiveCalls :
        /\ call.line.source_mappings # <<>>
        /\ call.line.source_mappings[1].source_index <= call.source_index
        /\ rendered_index_for_source_index(call.line, call.source_index) # Panic

\* A selection made on "[l](u) b", whose line starts at the offset 1, is kept
\* over the text that an append made the document render again, and looked
\* up there.
C36_Witness ==
    /\ committed_version = 1
    /\ rendered_text = Some(request_layout(parsed_markdown))
    /\ Len(source) > Len(LinkSource)
    /\ Unwrap(rendered_text).lines[1].source_mappings[1].source_index = 1
    /\ selection.start < selection.end
    /\ text_for_range_calls(Unwrap(rendered_text), selection.start, selection.end) # {}
    /\ position_for_source_index_calls(Unwrap(rendered_text), selection.end) # {}
    /\ surrounding_word_range_calls(Unwrap(rendered_text),
                                    OffsetAt([x |-> -1, y |-> 0]).ix) # {}

\* C37: for the selection of every reachable state, one kept over a text
\* that an append made the document render again included, every slice that
\* text_for_range takes of a line has a start that is not after its end and
\* an end that is not after the end of the text of the line.
C37_RangeTextSlicesAreInBounds ==
    (rendered_text # None /\ selection.start <= selection.end) =>
        \A slice \in text_for_range_slices(Unwrap(rendered_text),
                                           selection.start, selection.end) :
            /\ 0 <= slice.start
            /\ slice.start <= slice.end
            /\ slice.end <= Len(slice.line.text)

\* The pairs of the list a step removes.
Removed ==
    {notifications[i] : i \in 1 .. Len(notifications)} \
        {notifications'[i] : i \in 1 .. Len(notifications')}

\* C38: when the timer of an auto-hiding toast fires, the only notification
\* the step removes is the one that toast's show_toast built: a toast shown
\* later under the same id stays in the list.
C38_TimerDismissesOnlyItsOwnToast ==
    [][\A timer \in timers \ timers' :
           \A pair \in Removed : pair.notification = timer.started_by]_vars

\* The ids of the list are pairwise distinct.
DistinctIds ==
    \A i, j \in 1 .. Len(notifications) :
        notifications[i].id = notifications[j].id => i = j

\* A step in which a notification is shown, that is, in which a view is built:
\* the new pair is the last of the list, and before it stand, in their order,
\* the pairs the list held under other ids.
ShowsAtTheEnd ==
    next_entity' # next_entity =>
        /\ notifications' # <<>>
        /\ LET shown == notifications'[Len(notifications')]
               kept == {i \in 1 .. Len(notifications) :
                           notifications[i].id # shown.id}
           IN  /\ shown.notification = next_entity
               /\ Len(notifications') = Cardinality(kept) + 1
               /\ \A i \in kept :
                      notifications'[Cardinality({k \in kept : k <= i})] =
                          notifications[i]

\* C39: the ids of the notification list are pairwise distinct in every
\* reachable state, and every step that shows a notification leaves the new
\* one at the end of the list, in place of the one the list held under its id.
C39_IdsAreDistinctAndShowReplaces ==
    [][ShowsAtTheEnd]_vars /\ []DistinctIds

\* The toast "update" was shown, then the portal error, then "update" again:
\* the list holds the portal error and, after it, the second "update" alone.
C39_Witness ==
    /\ notifications = <<Shown(PortalError, 1), Shown(Named("update"), 2)>>
    /\ [id |-> Named("update"), started_by |-> 0] \in timers

\* An item that is an enabled entry or a selectable custom entry.
IsEnabledOrSelectableCustom(item) ==
    \/ item.kind = "Entry" /\ ~item.disabled
    \/ item.kind = "CustomEntry" /\ item.selectable

\* C40: selected_index is None or the index of an item of the menu that is an
\* enabled entry or a selectable custom entry, whatever the items and whatever
\* the sequence of selections and dispatched actions.
C40_SelectionIsNoneOrSelectable ==
    \/ selected_index = None
    \/ /\ Unwrap(selected_index) \in 0 .. Len(items) - 1
       /\ IsEnabledOrSelectableCustom(items[Unwrap(selected_index) + 1])

\* A menu of a header, a disabled entry and an enabled one, built and then
\* driven to select the enabled entry, the only one that can be selected.
C40_Witness ==
    /\ ~building
    /\ Len(items) = 3
    /\ items[1].kind = "Header"
    /\ items[2].kind = "Entry" /\ items[2].disabled
    /\ items[3].kind = "Entry" /\ ~items[3].disabled
    /\ selected_index = Some(2)

====
